---------------------------- MODULE Spec2Model ----------------------------
(***************************************************************************)
(* A model of the world generator of juice: Terrain (terrain.py), its      *)
(* Heightmap (heightmap.py), the TerrainLayers (terrainlayer.py), the      *)
(* segment labelling of GameFieldLayer (gamefieldlayer.py) and the tile    *)
(* classifiers (tileclassifier.py).                                        *)
(*                                                                         *)
(* Grids are functions from cells <<x, y>> (x the column, y the row, the   *)
(* "game coordinates" of the source: numpy's matrix[y, x]) to integers.    *)
(* A field that holds None in the source holds NoGrid here.                *)
(*                                                                         *)
(* Python's two global generators (random and numpy.random) are modelled   *)
(* by one small linear congruential generator each: seeding sets the       *)
(* state, every draw advances it.  Only the values drawn differ from the   *)
(* Mersenne Twister; which generator a call draws from, how many draws it  *)
(* makes and in which order are those of the source.                       *)
(*                                                                         *)
(* The world is Dim x Dim with Dim = 4 instead of 64, and the constants    *)
(* that count cells (MIN_SEA_SIZE, MIN_BIOME_SIZE, MIN_POPSUPPORT_SIZE)    *)
(* or are a proportion of the cell count (CITY_DENSITY) are scaled down    *)
(* with it; each definition names the value of the source.  The height     *)
(* thresholds, the tile type ids and the movement points are the source's. *)
(***************************************************************************)
EXTENDS Integers, Sequences, FiniteSets, TLC

VARIABLES
    seed,           \* randseed given to Terrain and to every layer
    plan,           \* the layer kinds the caller adds, in order
    nadded,         \* how many add_layer calls of the plan were made
    dim,            \* Terrain.dim
    pyrng,          \* state of Python's global random generator
    nprng,          \* state of numpy's global random generator
    layers,         \* Terrain._layers: the kinds, in insertion order
    hm,             \* Terrain.heightmap.matrix
    matrix,         \* TerrainLayer.matrix, per layer kind
    classification, \* TerrainLayer.classification.matrix, per layer kind
    cities,         \* CityLayer.cities
    drawn,          \* history: the city matrix before _remove_close_cities
    weightmap,      \* RoadLayer._weightmap
    riverlog,       \* history: one record per river walk of the last River generation
    roadlog,        \* history: one record per city pair of the last Road generation
    pc,             \* position of the caller / of Terrain.generate
    gi,             \* Terrain.generate: index of the layer generated next
    log,            \* history: generator runs and progress callbacks, in order
    err,            \* the exception the last call raised ("" if it returned)
    calls,          \* number of direct layer.generate calls made
    run,            \* 1: first process, 2: after a restart with the same inputs
    prev,           \* outputs of the first run, kept across the restart
    draws           \* history: the generators at the start of each generate of this run

vars == <<seed, plan, nadded, dim, pyrng, nprng, layers, hm, matrix,
          classification, cities, drawn, weightmap, riverlog, roadlog, pc, gi,
          log, err, calls, run, prev, draws>>

-----------------------------------------------------------------------------
(* Bounds of the model *)

MaxSeed == 200
MaxRunSeed == 40
MaxRoadSeed == 400
MaxCalls == 1
MaxDrawn == 2
MaxFree == 11
MaxCapSeed == 60
MaxAdds == 3
MaxZeroSeed == 60
MaxWalkSeed == 100
MaxBiomeSeed == 10
SMALL_MIN_SIZE == 2
SMALL_MAX_RIVER_ID == 3

(* Program constants.  Those scaled with the world are bounds of the model. *)

\* juice.py: TERRAIN_DIM = 2**6; the world of the generation runs is 4 x 4,
\* the world of the city separation has the dimension of the program
Dim == 4
TERRAIN_DIM == 64

INITIAL_LO == 64
INITIAL_HI == 191
PETURB_RANGE == 256
\* PETURB_DECREASE = 0.35, as a percentage
PETURB_DECREASE_PCT == 35

MOUNTAIN_THRESHOLD == 192
SEA_THRESHOLD == 96
\* scaled with the world; source: 32 (of 64 x 64 cells)
MIN_SEA_SIZE == 3
\* RIVER_DENSITY = 0.025, in thousandths
RIVER_DENSITY_PER_MILLE == 25
MIN_RIVER_SOURCES == 4
MAX_RIVER_ID == 255
DELTA_SEA == 80
DELTA_RIVER == 81
BIOME_DESERT == 1
BIOME_FOREST == 2
BIOME_H_DELTA == 15
\* scaled with the world; source: 32 (of 64 x 64 cells)
MIN_BIOME_SIZE == 3
\* CITY_DENSITY = 0.005 in the source; 0.25 in the 4 x 4 world, in thousandths
CITY_DENSITY_PER_MILLE == 250
\* scaled with the world; source: 12 (of 64 x 64 cells)
MIN_POPSUPPORT_SIZE == 3
CITY_CLOSENESS_FACTOR == 20
MAX_CITY_DISALLOW_RADIUS == 40

\* Movement points, in hundredths (MP_PENALTY_DESERT = -0.2, ...)
MP_PENALTY_DESERT == -20
MP_PENALTY_FOREST == 50
MP_PENALTY_ELEV == 8
MP_BRIDGE == 500
MP_ROAD == 20
MP_BASE == 100
\* float("inf")
Inf == 1000000

\* The value the reversed classifier writes on the cells it removes
REMOVED_REV == 254

Kinds == {"Sea", "River", "Delta", "Biome", "City", "Road"}

NoGrid == <<>>

-----------------------------------------------------------------------------
(* The random generators *)

RngModulus == 65536
RngMultiplier == 25173
RngIncrement == 13849
RngShift == 64

\* random.seed(s), numpy.random.seed(s): the state is a function of s alone
RngSeed(s) == s % RngModulus

RngNext(s) == (RngMultiplier * s + RngIncrement) % RngModulus

\* One draw: an integer in 0 .. n-1 and the generator's next state
RandBelow(s, n) ==
    LET t == RngNext(s) IN [v |-> (t \div RngShift) % n, s |-> t]

\* random.randint(lo, hi)
RandInt(s, lo, hi) ==
    LET r == RandBelow(s, hi - lo + 1) IN [v |-> lo + r.v, s |-> r.s]

Swap(q, i, j) == [q EXCEPT ![i] = q[j], ![j] = q[i]]

\* random.shuffle / numpy.random.shuffle: Fisher-Yates from the last index down
RECURSIVE ShuffleFrom(_, _, _)
ShuffleFrom(s, q, i) ==
    IF i <= 1 THEN [v |-> q, s |-> s]
    ELSE LET r == RandBelow(s, i)
         IN ShuffleFrom(r.s, Swap(q, i, r.v + 1), i - 1)

Shuffle(s, q) == ShuffleFrom(s, q, Len(q))

\* random.sample(population, k), the pool variant used for small populations
RECURSIVE SampleFrom(_, _, _, _)
SampleFrom(s, pool, k, acc) ==
    IF k = 0 THEN [v |-> acc, s |-> s]
    ELSE LET n == Len(pool)
             r == RandBelow(s, n)
             j == r.v + 1
         IN SampleFrom(r.s, SubSeq([pool EXCEPT ![j] = pool[n]], 1, n - 1),
                       k - 1, Append(acc, pool[j]))

Sample(s, population, k) == SampleFrom(s, population, k, <<>>)

-----------------------------------------------------------------------------
(* Grids *)

CellsOf(n) == (0 .. n - 1) \X (0 .. n - 1)

\* A function written out as an explicit array of its values
Array(f) == f @@ <<>>

ZeroGrid(n) == Array([c \in CellsOf(n) |-> 0])

Abs(a) == IF a < 0 THEN -a ELSE a
Min2(a, b) == IF a <= b THEN a ELSE b
Max2(a, b) == IF a >= b THEN a ELSE b

\* The row-major position of a cell (numpy's iteration order)
RowMajor(c, n) == c[2] * n + c[1]

\* The cells of S in row-major order, as a sequence
RECURSIVE SortCells(_, _)
SortCells(S, n) ==
    IF S = {} THEN <<>>
    ELSE LET c == CHOOSE a \in S : \A b \in S : RowMajor(a, n) <= RowMajor(b, n)
         IN <<c>> \o SortCells(S \ {c}, n)

GridDim(m) == CHOOSE n \in 0 .. 64 : DOMAIN m = CellsOf(n)

\* GameFieldLayer.foreach_matrix_edge_neighbor: N, E, S, W, inside the matrix
EdgeNeighbors(m, c) ==
    LET x == c[1]
        y == c[2]
    IN SelectSeq(<< <<x, y - 1>>, <<x + 1, y>>, <<x, y + 1>>, <<x - 1, y>> >>,
                 LAMBDA p : p \in DOMAIN m)

\* GameFieldLayer.foreach_neighbor: the edge neighbours, then NE, SE, SW, NW
AllNeighbors(m, c) ==
    LET x == c[1]
        y == c[2]
    IN EdgeNeighbors(m, c) \o
       SelectSeq(<< <<x + 1, y - 1>>, <<x + 1, y + 1>>,
                    <<x - 1, y + 1>>, <<x - 1, y - 1>> >>,
                 LAMBDA p : p \in DOMAIN m)

SeqToSet(q) == {q[i] : i \in 1 .. Len(q)}

-----------------------------------------------------------------------------
(* Heightmap (heightmap.py) *)

\* _set_point_perturbed_value.  st = [t |-> buffer, s |-> generator state];
\* the buffer is keyed as the source indexes it, t[x, y].
SetPointPerturbedValue(st, p, val, perturb_range) ==
    LET half_range == perturb_range \div 2
        r == RandInt(st.s, -half_range, half_range)
        v == val + r.v
        clamped == IF v < 0 THEN 0 ELSE IF v > 255 THEN 255 ELSE v
    IN [t |-> [st.t EXCEPT ![p] = clamped], s |-> r.s]

\* _set_square_average (fill is never set: Terrain builds the Heightmap with
\* min_cell_size = 1)
SetSquareAverage(st, x, y, square_dim, rand_range) ==
    LET t == st.t
        avg == (t[<<x, y>>] + t[<<x + square_dim - 1, y>>]
                + t[<<x, y + square_dim - 1>>]
                + t[<<x + square_dim - 1, y + square_dim - 1>>]) \div 4
        midpoint == (square_dim - 1) \div 2
    IN SetPointPerturbedValue(st, <<x + midpoint, y + midpoint>>, avg, rand_range)

\* _set_diamond_average: the mean of the neighbours at distance halfsquare that
\* lie in the buffer (cells not set yet count with their 0)
SetDiamondAverage(st, x, y, halfsquare, rand_range) ==
    LET t == st.t
        coords == << <<x, y - halfsquare>>, <<x + halfsquare, y>>,
                     <<x, y + halfsquare>>, <<x - halfsquare, y>> >>
        valid == {i \in 1 .. 4 : coords[i] \in DOMAIN t}
        Val(i) == IF i \in valid THEN t[coords[i]] ELSE 0
        total == Val(1) + Val(2) + Val(3) + Val(4)
        nval == Cardinality(valid)
    IN SetPointPerturbedValue(st, <<x, y>>, total \div nval, rand_range)

\* _set_diamond_averages
SetDiamondAverages(st, x, y, square_dim, rand_range) ==
    LET midpoint == (square_dim - 1) \div 2
        d1 == SetDiamondAverage(st, x + midpoint, y, midpoint, rand_range)
        d2 == SetDiamondAverage(d1, x + square_dim - 1, y + midpoint, midpoint, rand_range)
        d3 == SetDiamondAverage(d2, x + midpoint, y + square_dim - 1, midpoint, rand_range)
    IN SetDiamondAverage(d3, x, y + midpoint, midpoint, rand_range)

\* _approximate_to_squaredim: the squares in the order of the two while loops
\* (y outer, x inner), from the i-th square on
RECURSIVE ApproximateFrom(_, _, _, _, _)
ApproximateFrom(st, n, square_dim, rand_range, i) ==
    LET k == n \div (square_dim - 1)
    IN IF i >= k * k THEN st
       ELSE LET x == (i % k) * (square_dim - 1)
                y == (i \div k) * (square_dim - 1)
                sq == SetSquareAverage(st, x, y, square_dim, rand_range)
                di == SetDiamondAverages(sq, x, y, square_dim, rand_range)
            IN ApproximateFrom(di, n, square_dim, rand_range, i + 1)

ApproximateToSquaredim(st, n, square_dim, rand_range) ==
    ApproximateFrom(st, n, square_dim, rand_range, 0)

\* The while loop of Heightmap.generate
RECURSIVE DiamondSquare(_, _, _, _)
DiamondSquare(st, n, square_dim, rand_range) ==
    IF square_dim > 2
    THEN DiamondSquare(ApproximateToSquaredim(st, n, square_dim, rand_range), n,
                       square_dim \div 2 + 1,
                       rand_range - (rand_range * PETURB_DECREASE_PCT) \div 100)
    ELSE st

\* int((v - minv) * (255 / (maxv - minv))) in double precision: for these
\* <<maxv - minv, v - minv>> the product falls just below the exact integer
\* and int() gives one less than the exact quotient
StretchFloatLoss ==
    {<<25, 25>>, <<29, 29>>, <<50, 50>>, <<53, 53>>, <<58, 58>>, <<91, 91>>,
     <<93, 93>>, <<100, 100>>, <<103, 103>>, <<105, 21>>, <<105, 42>>,
     <<105, 49>>, <<105, 77>>, <<105, 84>>, <<105, 91>>, <<105, 98>>,
     <<105, 105>>, <<106, 106>>, <<116, 116>>, <<117, 39>>, <<117, 78>>,
     <<117, 117>>, <<121, 121>>, <<182, 182>>, <<185, 185>>, <<186, 186>>,
     <<187, 11>>, <<187, 22>>, <<187, 44>>, <<187, 77>>, <<187, 88>>,
     <<187, 143>>, <<187, 154>>, <<187, 165>>, <<187, 176>>, <<187, 187>>,
     <<191, 191>>, <<200, 200>>, <<203, 203>>, <<206, 206>>, <<207, 207>>,
     <<210, 42>>, <<210, 84>>, <<210, 98>>, <<210, 154>>, <<210, 168>>,
     <<210, 182>>, <<210, 196>>, <<210, 210>>, <<212, 212>>, <<217, 217>>,
     <<221, 13>>, <<221, 26>>, <<221, 39>>, <<221, 52>>, <<221, 78>>,
     <<221, 91>>, <<221, 104>>, <<221, 143>>, <<221, 156>>, <<221, 169>>,
     <<221, 182>>, <<221, 195>>, <<221, 208>>, <<221, 221>>, <<232, 232>>,
     <<233, 233>>, <<234, 78>>, <<234, 156>>, <<234, 234>>, <<235, 47>>,
     <<235, 94>>, <<235, 188>>, <<235, 235>>, <<242, 242>>}

StretchValue(v, minv, maxv) ==
    LET d == maxv - minv
        k == v - minv
    IN (k * 255) \div d - (IF <<d, k>> \in StretchFloatLoss THEN 1 ELSE 0)

GridMax(m) == CHOOSE v \in {m[c] : c \in DOMAIN m} : \A c \in DOMAIN m : m[c] <= v
GridMin(m) == CHOOSE v \in {m[c] : c \in DOMAIN m} : \A c \in DOMAIN m : m[c] >= v

\* _stretch_levels.  A constant matrix makes the scale infinite and the
\* conversion of 0 * inf to an integer raise ValueError, the matrix unchanged.
StretchLevels(m) ==
    LET maxv == GridMax(m)
        minv == GridMin(m)
    IN IF minv > 0 \/ maxv < 255
       THEN IF maxv = minv
            THEN [m |-> m, ok |-> FALSE]
            ELSE [m |-> Array([c \in DOMAIN m |-> StretchValue(m[c], minv, maxv)]),
                  ok |-> TRUE]
       ELSE [m |-> m, ok |-> TRUE]

\* Heightmap.generate with the arguments Terrain gives (no noise, no blur).
\* The result is keyed by game coordinates: m[<<x, y>>] is matrix[y, x].
HeightmapGenerate(s, n) ==
    LET c1 == RandInt(s, INITIAL_LO, INITIAL_HI)
        c2 == RandInt(c1.s, INITIAL_LO, INITIAL_HI)
        c3 == RandInt(c2.s, INITIAL_LO, INITIAL_HI)
        c4 == RandInt(c3.s, INITIAL_LO, INITIAL_HI)
        t0 == Array([c \in CellsOf(n + 1) |->
                 IF c = <<0, 0>> THEN c1.v
                 ELSE IF c = <<0, n>> THEN c2.v
                 ELSE IF c = <<n, 0>> THEN c3.v
                 ELSE IF c = <<n, n>> THEN c4.v
                 ELSE 0])
        Result(st, stretched) == [m |-> stretched.m, s |-> st.s, ok |-> stretched.ok]
        Slice(st) ==
            Result(st, StretchLevels(Array([c \in CellsOf(n) |-> st.t[<<c[2], c[1]>>]])))
    IN Slice(DiamondSquare([t |-> t0, s |-> c4.s], n, n + 1, PETURB_RANGE))

-----------------------------------------------------------------------------
(* Segment labelling (gamefieldlayer.py) *)

\* The cells of U that are 4-connected to S through cells of U
RECURSIVE Flood(_, _, _)
Flood(m, U, S) ==
    LET more == {c \in U \ S : \E d \in SeqToSet(EdgeNeighbors(m, c)) : d \in S}
    IN IF more = {} THEN S ELSE Flood(m, U, S \cup more)

\* scipy.ndimage.label: the 4-connected segments of the nonzero cells are
\* numbered 1, 2, ... in the row-major order of their first cells
RECURSIVE LabelFrom(_, _, _, _)
LabelFrom(m, lab, U, n) ==
    IF U = {} THEN [m |-> lab, n |-> n]
    ELSE LET first == CHOOSE a \in U :
                        \A b \in U : RowMajor(a, GridDim(m)) <= RowMajor(b, GridDim(m))
             seg == Flood(m, U, {first})
         IN LabelFrom(m, Array([c \in DOMAIN m |-> IF c \in seg THEN n + 1 ELSE lab[c]]),
                      U \ seg, n + 1)

NdiLabel(m) ==
    LabelFrom(m, Array([c \in DOMAIN m |-> 0]), {c \in DOMAIN m : m[c] # 0}, 0)

\* A labelling that numbers the segments that are left anew
LabelMatrixSegmentsRenumbered(m, min_size) ==
    LET Size(labels, i) == Cardinality({c \in DOMAIN m : labels.m[c] = i})
        Kept(labels) ==
            Array([c \in DOMAIN m |->
                IF labels.m[c] # 0 /\ Size(labels, labels.m[c]) < min_size
                THEN 0 ELSE labels.m[c]])
        Again(kept) == [m |-> NdiLabel(kept).m, n |-> NdiLabel(kept).n]
    IN Again(Kept(NdiLabel(m)))

\* GameFieldLayer.label_matrix_segments: returns the labelled matrix and the
\* original number of labels; segments smaller than min_size are zeroed
LabelMatrixSegments(m, min_size) ==
    LET Size(labels, i) == Cardinality({c \in DOMAIN m : labels.m[c] = i})
        Filter(labels) ==
            IF min_size > 0
            THEN [m |-> Array([c \in DOMAIN m |->
                           IF labels.m[c] # 0 /\ Size(labels, labels.m[c]) < min_size
                           THEN 0 ELSE labels.m[c]]),
                  n |-> labels.n]
            ELSE labels
    IN Filter(NdiLabel(m))

-----------------------------------------------------------------------------
(* Tile classifiers (tileclassifier.py) *)

TT_EMPTY == 0
TT_NA == 1
TT_SOLID == 2
TT_CONCAVE_NE == 11
TT_CONCAVE_SE == 12
TT_CONCAVE_SW == 13
TT_CONCAVE_NW == 14
TT_CONVEX_NE == 15
TT_CONVEX_SE == 16
TT_CONVEX_SW == 17
TT_CONVEX_NW == 18
TT_STRAIGHT_N == 19
TT_STRAIGHT_E == 20
TT_STRAIGHT_S == 21
TT_STRAIGHT_W == 22
TT_STRAIGHT_NS == 21
TT_STRAIGHT_WE == 22
TT_SOURCE_N == 31
TT_SOURCE_E == 32
TT_SOURCE_S == 33
TT_SOURCE_W == 34
TT_CORNER_NE == 41
TT_CORNER_SE == 42
TT_CORNER_SW == 43
TT_CORNER_NW == 44
TT_TBONE_N == 51
TT_TBONE_E == 52
TT_TBONE_S == 53
TT_TBONE_W == 54
TT_FOURWAY == 61
TT_DELTA_N == 71
TT_DELTA_E == 72
TT_DELTA_S == 73
TT_DELTA_W == 74

\* The entries of a ternary template: True, False, None
tT == 1
tF == 0
tN == 2

\* A template is a 3 x 3 array a[row][column], rows and columns 1 .. 3
TS_CONCAVE == [callable |-> FALSE, initial_tt |-> TT_CONCAVE_NE, rotations |-> 4,
               array |-> << <<tT, tT, tT>>, <<tT, tT, tT>>, <<tF, tT, tT>> >>]
TS_CONVEX == [callable |-> FALSE, initial_tt |-> TT_CONVEX_NE, rotations |-> 4,
              array |-> << <<tN, tF, tN>>, <<tT, tT, tF>>, <<tT, tT, tN>> >>]
TS_STRAIGHT == [callable |-> FALSE, initial_tt |-> TT_STRAIGHT_N, rotations |-> 4,
                array |-> << <<tN, tF, tN>>, <<tT, tT, tT>>, <<tT, tT, tT>> >>]
SLIVER_SPEC == [callable |-> TRUE, initial_tt |-> 0, rotations |-> 0,
                array |-> << >>]

TSL_STRAIGHT == [callable |-> FALSE, initial_tt |-> TT_STRAIGHT_NS, rotations |-> 2,
                 array |-> << <<tN, tT, tN>>, <<tF, tT, tF>>, <<tN, tT, tN>> >>]
TSL_SOURCE == [callable |-> FALSE, initial_tt |-> TT_SOURCE_N, rotations |-> 4,
               array |-> << <<tN, tT, tN>>, <<tF, tT, tF>>, <<tN, tN, tN>> >>]
TSL_CORNER == [callable |-> FALSE, initial_tt |-> TT_CORNER_NE, rotations |-> 4,
               array |-> << <<tN, tT, tN>>, <<tF, tT, tT>>, <<tN, tF, tN>> >>]
TSL_TBONE == [callable |-> FALSE, initial_tt |-> TT_TBONE_N, rotations |-> 4,
              array |-> << <<tN, tT, tN>>, <<tT, tT, tT>>, <<tN, tF, tN>> >>]
TSL_FOURWAY == [callable |-> FALSE, initial_tt |-> TT_FOURWAY, rotations |-> 1,
                array |-> << <<tN, tT, tN>>, <<tT, tT, tT>>, <<tN, tT, tN>> >>]

\* The tilespec lists TileClassifierSolid.classify and TileClassifierLine.classify pass
SolidTilespecLists == << <<SLIVER_SPEC>>, <<TS_CONCAVE, TS_CONVEX, TS_STRAIGHT>> >>
LineTilespecLists == << <<TSL_STRAIGHT, TSL_SOURCE, TSL_CORNER, TSL_TBONE, TSL_FOURWAY>> >>

\* TileClassifier._init_matrix
ClsInitMatrix(fm, rev) ==
    Array([c \in DOMAIN fm |->
        IF (IF rev THEN fm[c] = 0 ELSE fm[c] # 0) THEN TT_NA ELSE TT_EMPTY])

\* _extend_matrix, read at the cell <<x, y>> of the original matrix, x and y
\* in -1 .. dim: the border repeats the edge (with_same) or is zero
ExtendedAt(m, x, y, with_same) ==
    LET n == GridDim(m)
    IN IF <<x, y>> \in DOMAIN m THEN m[<<x, y>>]
       ELSE IF with_same
            THEN m[<<Min2(Max2(x, 0), n - 1), Min2(Max2(y, 0), n - 1)>>]
            ELSE 0

\* nhood = m[y-1:y+2, x-1:x+2] of the extended matrix: nhood[row][column]
Nhood(m, c, with_same) ==
    Array([r \in 1 .. 3 |-> [k \in 1 .. 3 |->
        ExtendedAt(m, c[1] + k - 2, c[2] + r - 2, with_same)]])

\* A rotation the other way round: flipud(transpose(m))
RotateMatrixAnticlockwise(a) == Array([r \in 1 .. 3 |-> [k \in 1 .. 3 |-> a[k][4 - r]]])

\* _rotate_matrix: fliplr(transpose(m))
RotateMatrix(a) == Array([r \in 1 .. 3 |-> [k \in 1 .. 3 |-> a[4 - k][r]]])

\* _is_ternary_matrix_equal(a, b), b a matrix of booleans
IsTernaryMatrixEqual(a, b) ==
    \A r \in 1 .. 3 : \A k \in 1 .. 3 :
        a[r][k] = tN \/ (a[r][k] = tT) = b[r][k]

\* sliver_spec of TileClassifierSolid.classify
SliverSpec(nhood) ==
    \/ (nhood[1][2] = 0 /\ nhood[3][2] = 0)
    \/ (nhood[2][1] = 0 /\ nhood[2][3] = 0)

\* The while loop of _classify_tile: the first rotation i < rotations at
\* which the template matches, or -1 (None)
RECURSIVE MatchRotation(_, _, _, _)
MatchRotation(ts_matrix, nhood_bool, i, rotations) ==
    IF i >= rotations THEN -1
    ELSE IF IsTernaryMatrixEqual(ts_matrix, nhood_bool) THEN i
    ELSE MatchRotation(RotateMatrix(ts_matrix), nhood_bool, i + 1, rotations)

\* _classify_tile.  Returns [kind |-> "bool", b |-> ...], [kind |-> "int",
\* tt |-> ...] or [kind |-> "none"].
ClassifyTile(m, mask_c, c, tilespec, solid, with_same) ==
    LET nhood == Nhood(m, c, with_same)
        all_set == \A r \in 1 .. 3 : \A k \in 1 .. 3 : nhood[r][k] # 0
        nhood_bool == Array([r \in 1 .. 3 |-> [k \in 1 .. 3 |-> nhood[r][k] > TT_EMPTY]])
        rot == MatchRotation(tilespec.array, nhood_bool, 0, tilespec.rotations)
    IN IF ~mask_c THEN [kind |-> "bool", b |-> FALSE, tt |-> 0]
       ELSE IF m[c] = TT_EMPTY THEN [kind |-> "bool", b |-> FALSE, tt |-> 0]
       ELSE IF solid /\ all_set THEN [kind |-> "int", b |-> FALSE, tt |-> TT_SOLID]
       ELSE IF tilespec.callable
            THEN [kind |-> "bool", b |-> SliverSpec(nhood), tt |-> 0]
       ELSE IF rot >= 0
            THEN [kind |-> "int", b |-> FALSE, tt |-> tilespec.initial_tt + rot]
       ELSE [kind |-> "none", b |-> FALSE, tt |-> 0]

\* The effect of the loop of _apply_tilespecs on one cell: its mask bit and
\* its value in m after the tilespecs from the i-th on (the extended matrix
\* is a copy made before the loop, so cells do not influence each other)
RECURSIVE CellPass(_, _, _, _, _, _, _, _)
CellPass(ext, c, tilespecs, i, mask_c, val, solid, with_same) ==
    IF i > Len(tilespecs) THEN [mask |-> mask_c, val |-> val]
    ELSE LET Rest(cls) ==
                 IF cls.kind = "bool"
                 THEN CellPass(ext, c, tilespecs, i + 1, cls.b, val, solid, with_same)
                 ELSE IF cls.kind = "int"
                 THEN CellPass(ext, c, tilespecs, i + 1, FALSE, cls.tt, solid, with_same)
                 ELSE CellPass(ext, c, tilespecs, i + 1, mask_c, val, solid, with_same)
         IN Rest(ClassifyTile(ext, mask_c, c, tilespecs[i], solid, with_same))

\* A pass that leaves the cells no tilespec has classified as they are
ApplyTilespecsKeepsUnmatched(st, tilespecs, solid, rev, with_same) ==
    [m |-> Array([c \in DOMAIN st.m |->
              CellPass(st.m, c, tilespecs, 1, TRUE, st.m[c], solid, with_same).val]),
     fm |-> st.fm,
     n |-> 0]

\* A pass that counts the cells no tilespec has classified and keeps them
ApplyTilespecsCountsOnly(st, tilespecs, solid, rev, with_same) ==
    LET Result(res) ==
            [m |-> Array([c \in DOMAIN st.m |-> res[c].val]),
             fm |-> st.fm,
             n |-> Cardinality({c \in DOMAIN st.m : res[c].mask})]
    IN Result(Array([c \in DOMAIN st.m |->
                  CellPass(st.m, c, tilespecs, 1, TRUE, st.m[c], solid, with_same)]))

\* _apply_tilespecs: st = [m |-> classification, fm |-> the layer's matrix];
\* returns them after the pass and n, the number of cells removed
ApplyTilespecs(st, tilespecs, solid, rev, with_same) ==
    LET Result(res) ==
            [m |-> Array([c \in DOMAIN st.m |->
                      IF res[c].mask THEN TT_EMPTY ELSE res[c].val]),
             fm |-> Array([c \in DOMAIN st.m |->
                       IF res[c].mask THEN (IF rev THEN REMOVED_REV ELSE 0) ELSE st.fm[c]]),
             n |-> Cardinality({c \in DOMAIN st.m : res[c].mask})]
    IN Result(Array([c \in DOMAIN st.m |->
                  CellPass(st.m, c, tilespecs, 1, TRUE, st.m[c], solid, with_same)]))

\* One pass of the loop of TileClassifier.classify over the tilespec lists
RECURSIVE ApplyLists(_, _, _, _, _, _, _)
ApplyLists(st, lists, i, n, solid, rev, with_same) ==
    IF i > Len(lists) THEN [m |-> st.m, fm |-> st.fm, n |-> n]
    ELSE LET Rest(r) == ApplyLists(r, lists, i + 1, n + r.n, solid, rev, with_same)
         IN Rest(ApplyTilespecs(st, lists[i], solid, rev, with_same))

\* A classifier that stops after its first pass
ClassifyOnePass(st, lists, solid, rev, with_same, passes) ==
    LET Once(r) == [m |-> r.m, fm |-> r.fm, passes |-> passes + 1]
    IN Once(ApplyLists(st, lists, 1, 0, solid, rev, with_same))

\* TileClassifier.classify: passes until one removes nothing
RECURSIVE ClassifyLoop(_, _, _, _, _, _)
ClassifyLoop(st, lists, solid, rev, with_same, passes) ==
    LET Again(r) ==
            IF r.n <= 0 THEN [m |-> r.m, fm |-> r.fm, passes |-> passes + 1]
            ELSE ClassifyLoop(r, lists, solid, rev, with_same, passes + 1)
    IN Again(ApplyLists(st, lists, 1, 0, solid, rev, with_same))

\* TileClassifierSolid(flayer, rev, extend).classify()
ClassifySolid(fm, rev, extend) ==
    ClassifyLoop([m |-> ClsInitMatrix(fm, rev), fm |-> fm],
                 SolidTilespecLists, TRUE, rev, extend, 0)

\* TileClassifierLine(flayer, rev, extend).classify()
ClassifyLine(fm, rev, extend) ==
    ClassifyLoop([m |-> ClsInitMatrix(fm, rev), fm |-> fm],
                 LineTilespecLists, FALSE, rev, extend, 0)

\* set_delta_dir with the west and east directions taken for each other
RECURSIVE DeltaDirMirrored(_, _, _, _, _)
DeltaDirMirrored(fm, c, nbrs, i, tt) ==
    IF i > Len(nbrs) THEN tt
    ELSE LET p == nbrs[i]
             d == IF fm[p] # DELTA_SEA THEN tt
                  ELSE IF p[1] - c[1] = -1 THEN TT_DELTA_E
                  ELSE IF p[1] - c[1] = 1 THEN TT_DELTA_W
                  ELSE IF p[2] - c[2] = -1 THEN TT_DELTA_N
                  ELSE TT_DELTA_S
         IN DeltaDirMirrored(fm, c, nbrs, i + 1, d)

\* TileClassifierDelta.set_delta_dir for the neighbours of c in the order
\* N, E, S, W: the last DELTA_SEA neighbour decides
RECURSIVE DeltaDir(_, _, _, _, _)
DeltaDir(fm, c, nbrs, i, tt) ==
    IF i > Len(nbrs) THEN tt
    ELSE LET p == nbrs[i]
             d == IF fm[p] # DELTA_SEA THEN tt
                  ELSE IF p[1] - c[1] = -1 THEN TT_DELTA_W
                  ELSE IF p[1] - c[1] = 1 THEN TT_DELTA_E
                  ELSE IF p[2] - c[2] = -1 THEN TT_DELTA_N
                  ELSE TT_DELTA_S
         IN DeltaDir(fm, c, nbrs, i + 1, d)

\* TileClassifierDelta.classify
ClassifyDelta(fm) ==
    Array([c \in DOMAIN fm |->
        IF fm[c] = DELTA_RIVER
        THEN DeltaDir(fm, c, EdgeNeighbors(fm, c), 1, TT_EMPTY)
        ELSE TT_EMPTY])

\* TileClassifierSimple.classify: the class is imported by terrainlayer.py
\* but is not part of tileclassifier.py; a passthrough of the matrix
ClassifySimple(fm) == fm

-----------------------------------------------------------------------------
(* The layer generators (terrainlayer.py).  A generator maps the world      *)
(* w = [dim, hm, matrix, classification, pyrng, nprng, cities, weightmap,  *)
(* drawn, riverlog, roadlog] to the world after it; SetLayer stores a      *)
(* layer's matrix and classification.                                      *)
(* A result that is used more than once is handed to a local operator, so  *)
(* that the expression that computes it occurs once.                       *)

SetMatrix(w, kind, m) == [w EXCEPT !.matrix[kind] = m]

SetLayer(w, kind, m, cx) ==
    [w EXCEPT !.matrix[kind] = m, !.classification[kind] = cx]

\* SeaMatrix without the removal of the segments below MIN_SEA_SIZE
SeaMatrixAnySize(w) ==
    LabelMatrixSegments(Array([c \in DOMAIN w.hm |->
                            IF w.hm[c] <= SEA_THRESHOLD THEN 1 ELSE 0]),
                        0).m

\* A sea of the cells strictly below the threshold
SeaMatrixBelow(threshold, w) ==
    LabelMatrixSegments(Array([c \in DOMAIN w.hm |->
                            IF w.hm[c] < threshold THEN 1 ELSE 0]),
                        MIN_SEA_SIZE).m

\* SeaLayer.generate, before the classification, in a terrain whose
\* SEA_THRESHOLD is threshold
SeaMatrixAt(threshold, w) ==
    LabelMatrixSegments(Array([c \in DOMAIN w.hm |->
                            IF w.hm[c] <= threshold THEN 1 ELSE 0]),
                        MIN_SEA_SIZE).m

\* SeaLayer.generate, before the classification
SeaMatrix(w) ==
    LabelMatrixSegments(Array([c \in DOMAIN w.hm |->
                            IF w.hm[c] <= SEA_THRESHOLD THEN 1 ELSE 0]),
                        MIN_SEA_SIZE).m

\* SeaLayer.generate as wrapped by TerrainLayer.classified (classify_rev)
SeaGenerateAt(threshold, w) ==
    LET Store(cx) == [ok |-> TRUE, w |-> SetLayer(w, "Sea", cx.fm, cx.m)]
    IN Store(ClassifySolid(SeaMatrixAt(threshold, w), TRUE, TRUE))

SeaGenerate(w) ==
    LET Store(cx) == [ok |-> TRUE, w |-> SetLayer(w, "Sea", cx.fm, cx.m)]
    IN Store(ClassifySolid(SeaMatrix(w), TRUE, TRUE))

\* A confirmation that looks at the neighbours of the position only
ConfirmSquareOkNeighboursOnly(m, c, river_id, neigh_rivers_threshold, allow_others) ==
    LET Predicate(p) == IF allow_others THEN m[p] # river_id ELSE m[p] = 0
        nbrs == EdgeNeighbors(m, c)
        n_river_nbrs == Cardinality({i \in 1 .. Len(nbrs) : ~Predicate(nbrs[i])})
    IN n_river_nbrs <= neigh_rivers_threshold

\* A confirmation that lets one river neighbour more than the threshold pass
ConfirmSquareOkOneMore(m, c, river_id, neigh_rivers_threshold, allow_others) ==
    LET Predicate(p) == IF allow_others THEN m[p] # river_id ELSE m[p] = 0
        nbrs == EdgeNeighbors(m, c)
        n_river_nbrs == Cardinality({i \in 1 .. Len(nbrs) : ~Predicate(nbrs[i])})
    IN Predicate(c) /\ n_river_nbrs <= neigh_rivers_threshold + 1

\* RiverLayer._confirm_square_ok, without the append to ok_neighbors
ConfirmSquareOk(m, c, river_id, neigh_rivers_threshold, allow_others) ==
    LET Predicate(p) == IF allow_others THEN m[p] # river_id ELSE m[p] = 0
        nbrs == EdgeNeighbors(m, c)
        n_river_nbrs == Cardinality({i \in 1 .. Len(nbrs) : ~Predicate(nbrs[i])})
    IN Predicate(c) /\ n_river_nbrs <= neigh_rivers_threshold

\* A walk that does not stop beside another river
IsSquareConvergingNever(m, c, river_id) == FALSE

\* RiverLayer._is_square_converging
IsSquareConverging(m, c, river_id) ==
    \E p \in SeqToSet(EdgeNeighbors(m, c)) : m[p] > 0 /\ m[p] # river_id

\* list.sort(key = height) takes the first of the lowest entries of the
\* shuffled list (the sort is stable)
FirstLowest(q, h) ==
    LET i == CHOOSE a \in 1 .. Len(q) :
                /\ \A b \in 1 .. Len(q) : h[q[a]] <= h[q[b]]
                /\ \A b \in 1 .. a - 1 : h[q[b]] > h[q[a]]
    IN q[i]

\* RiverStep that leaves the cells of a walk with no way on in the matrix
RiverStepKeepsFailed(st, hmatrix, smatrix, river_id) ==
    LET c == st.c
        marked == [st.m EXCEPT ![c] = river_id]
        nbrs == EdgeNeighbors(marked, c)
        ok_neighbors == SelectSeq(nbrs,
                          LAMBDA p : ConfirmSquareOk(marked, p, river_id, 1, TRUE))
        shuffled == Shuffle(st.s, ok_neighbors)
    IN IF smatrix[c] > 0
       THEN [st EXCEPT !.m = marked, !.result = "sea"]
       ELSE IF IsSquareConverging(st.m, c, river_id)
       THEN [st EXCEPT !.m = marked, !.result = "converged"]
       ELSE IF Len(ok_neighbors) > 0
       THEN [m |-> marked, s |-> shuffled.s,
             c |-> FirstLowest(shuffled.v, hmatrix), result |-> "walking"]
       ELSE [m |-> marked, s |-> shuffled.s, c |-> c, result |-> "failed"]

\* One iteration of the while loop of _generate_river.
\* st = [m, s, c, result]: the river matrix, the state of random, the
\* current position and "walking", "sea", "converged" or "failed".
RiverStep(st, hmatrix, smatrix, river_id) ==
    LET c == st.c
        marked == [st.m EXCEPT ![c] = river_id]
        nbrs == EdgeNeighbors(marked, c)
        ok_neighbors == SelectSeq(nbrs,
                          LAMBDA p : ConfirmSquareOk(marked, p, river_id, 1, TRUE))
        shuffled == Shuffle(st.s, ok_neighbors)
    IN IF smatrix[c] > 0
       THEN [st EXCEPT !.m = marked, !.result = "sea"]
       ELSE IF IsSquareConverging(st.m, c, river_id)
       THEN [st EXCEPT !.m = marked, !.result = "converged"]
       ELSE IF Len(ok_neighbors) > 0
       THEN [m |-> marked, s |-> shuffled.s,
             c |-> FirstLowest(shuffled.v, hmatrix), result |-> "walking"]
       ELSE [m |-> Array([p \in DOMAIN marked |-> IF marked[p] = river_id THEN 0 ELSE marked[p]]),
             s |-> shuffled.s, c |-> c, result |-> "failed"]

RECURSIVE RiverWalk(_, _, _, _)
RiverWalk(st, hmatrix, smatrix, river_id) ==
    IF st.result # "walking" THEN st
    ELSE RiverWalk(RiverStep(st, hmatrix, smatrix, river_id), hmatrix, smatrix, river_id)

\* RiverLayer._generate_river(x, y, river_id)
GenerateRiver(m, s, hmatrix, smatrix, src, river_id) ==
    IF ~ConfirmSquareOk(m, src, river_id, 0, FALSE)
    THEN [m |-> m, s |-> s, c |-> src, result |-> "rejected"]
    ELSE RiverWalk([m |-> m, s |-> s, c |-> src, result |-> "walking"],
                   hmatrix, smatrix, river_id)

\* A loop over the river sources that does not stop at the largest id
RECURSIVE GenerateRiversAll(_, _, _, _, _, _, _, _)
GenerateRiversAll(max_id, m, s, hmatrix, smatrix, sources, i, rlog) ==
    IF i > Len(sources) THEN [m |-> m, s |-> s, rlog |-> rlog]
    ELSE LET Rest(r) ==
                 GenerateRiversAll(max_id, r.m, r.s, hmatrix, smatrix, sources, i + 1,
                     Append(rlog, [id |-> i, src |-> sources[i], last |-> r.c,
                                   result |-> r.result, m |-> r.m]))
         IN Rest(GenerateRiver(m, s, hmatrix, smatrix, sources[i], i))

\* The for loop of RiverLayer.generate with the largest river id max_id
RECURSIVE GenerateRiversTo(_, _, _, _, _, _, _, _)
GenerateRiversTo(max_id, m, s, hmatrix, smatrix, sources, i, rlog) ==
    IF i > Len(sources) \/ i > max_id THEN [m |-> m, s |-> s, rlog |-> rlog]
    ELSE LET Rest(r) ==
                 GenerateRiversTo(max_id, r.m, r.s, hmatrix, smatrix, sources, i + 1,
                     Append(rlog, [id |-> i, src |-> sources[i], last |-> r.c,
                                   result |-> r.result, m |-> r.m]))
         IN Rest(GenerateRiver(m, s, hmatrix, smatrix, sources[i], i))

\* The for loop of RiverLayer.generate over the river sources
GenerateRivers(m, s, hmatrix, smatrix, sources, i, rlog) ==
    GenerateRiversTo(MAX_RIVER_ID, m, s, hmatrix, smatrix, sources, i, rlog)

\* The river sources: the mountain cells, shuffled by numpy.random, cut to
\* max(MIN_RIVER_SOURCES, RIVER_DENSITY * count) (all of them if fewer)
RiverSources(w) ==
    LET mtn_coords == SortCells({c \in DOMAIN w.hm : w.hm[c] >= MOUNTAIN_THRESHOLD}, w.dim)
        n == (Len(mtn_coords) * RIVER_DENSITY_PER_MILLE) \div 1000
        n_river_tiles == IF n < MIN_RIVER_SOURCES
                         THEN Min2(Len(mtn_coords), MIN_RIVER_SOURCES) ELSE n
        shuffled == Shuffle(w.nprng, mtn_coords)
    IN [v |-> SubSeq(shuffled.v, 1, n_river_tiles), s |-> shuffled.s]

\* RiverLayer.generate, before the classification, with the largest river
\* id max_id
RiverMatrixTo(max_id, w) ==
    LET Walks(sources) ==
            [r |-> GenerateRiversTo(max_id, ZeroGrid(w.dim), w.pyrng, w.hm, w.matrix["Sea"],
                                    sources.v, 1, <<>>),
             nprng |-> sources.s]
    IN Walks(RiverSources(w))

RiverMatrix(w) == RiverMatrixTo(MAX_RIVER_ID, w)

\* RiverLayer.generate as wrapped by TerrainLayer.classified
\* (TileClassifierLine, classify_extend = False)
RiverGenerateTo(max_id, w) ==
    LET Store(g, cx) ==
            [ok |-> TRUE,
             w |-> [SetLayer(w, "River", cx.fm, cx.m)
                      EXCEPT !.pyrng = g.r.s, !.nprng = g.nprng, !.riverlog = g.r.rlog]]
        Classified(g) == Store(g, ClassifyLine(g.r.m, FALSE, FALSE))
    IN Classified(RiverMatrixTo(max_id, w))

RiverGenerate(w) == RiverGenerateTo(MAX_RIVER_ID, w)

\* A Delta generation that also takes the river cells beside the sea out
\* of the river matrix
DeltaGenerateTakesBanks(w) ==
    LET smatrix == w.matrix["Sea"]
        rmatrix == w.matrix["River"]
        sdelta == {c \in DOMAIN rmatrix : smatrix[c] > 0 /\ rmatrix[c] > 0}
        m1 == Array([c \in DOMAIN rmatrix |-> IF c \in sdelta THEN DELTA_SEA ELSE 0])
        rmatrix2 == Array([c \in DOMAIN rmatrix |-> IF c \in sdelta THEN 0 ELSE rmatrix[c]])
        rcx2 == Array([c \in DOMAIN rmatrix |->
                    IF c \in sdelta THEN 0 ELSE w.classification["River"][c]])
        Conv(c) == LET nb == EdgeNeighbors(m1, c)
                   IN Cardinality({i \in 1 .. Len(nb) : m1[nb[i]] # 0})
        m2 == Array([c \in DOMAIN rmatrix |->
                 IF rmatrix2[c] > 0 /\ Conv(c) > 0 THEN DELTA_RIVER ELSE m1[c]])
        rmatrix3 == Array([c \in DOMAIN rmatrix |->
                       IF m2[c] = DELTA_RIVER THEN 0 ELSE rmatrix2[c]])
    IN [ok |-> TRUE,
        w |-> SetLayer(SetLayer(w, "River", rmatrix3, rcx2),
                       "Delta", m2, ClassifyDelta(m2))]

\* A Delta generation that clears the river matrix at the river mouths and
\* leaves the river classification as it is
DeltaGenerateKeepsRiverClass(w) ==
    LET smatrix == w.matrix["Sea"]
        rmatrix == w.matrix["River"]
        sdelta == {c \in DOMAIN rmatrix : smatrix[c] > 0 /\ rmatrix[c] > 0}
        m1 == Array([c \in DOMAIN rmatrix |-> IF c \in sdelta THEN DELTA_SEA ELSE 0])
        rmatrix2 == Array([c \in DOMAIN rmatrix |-> IF c \in sdelta THEN 0 ELSE rmatrix[c]])
        Conv(c) == LET nb == EdgeNeighbors(m1, c)
                   IN Cardinality({i \in 1 .. Len(nb) : m1[nb[i]] # 0})
        m2 == Array([c \in DOMAIN rmatrix |->
                 IF rmatrix2[c] > 0 /\ Conv(c) > 0 THEN DELTA_RIVER ELSE m1[c]])
    IN [ok |-> TRUE,
        w |-> SetLayer(SetLayer(w, "River", rmatrix2, w.classification["River"]),
                       "Delta", m2, ClassifyDelta(m2))]

\* DeltaLayer.generate with its classification: also clears the river matrix
\* and the river classification where river and sea overlap
DeltaGenerate(w) ==
    LET smatrix == w.matrix["Sea"]
        rmatrix == w.matrix["River"]
        sdelta == {c \in DOMAIN rmatrix : smatrix[c] > 0 /\ rmatrix[c] > 0}
        m1 == Array([c \in DOMAIN rmatrix |-> IF c \in sdelta THEN DELTA_SEA ELSE 0])
        rmatrix2 == Array([c \in DOMAIN rmatrix |-> IF c \in sdelta THEN 0 ELSE rmatrix[c]])
        rcx2 == Array([c \in DOMAIN rmatrix |->
                    IF c \in sdelta THEN 0 ELSE w.classification["River"][c]])
        Conv(c) == LET nb == EdgeNeighbors(m1, c)
                   IN Cardinality({i \in 1 .. Len(nb) : m1[nb[i]] # 0})
        m2 == Array([c \in DOMAIN rmatrix |->
                 IF rmatrix2[c] > 0 /\ Conv(c) > 0 THEN DELTA_RIVER ELSE m1[c]])
    IN [ok |-> TRUE,
        w |-> SetLayer(SetLayer(w, "River", rmatrix2, rcx2),
                       "Delta", m2, ClassifyDelta(m2))]

\* The loop of BiomeLayer.generate that gives each surviving segment a type
\* drawn with random.sample((BIOME_FOREST, BIOME_DESERT), 1)
RECURSIVE AssignBiomes(_, _, _, _)
AssignBiomes(m, s, segment_id, n_segments) ==
    IF segment_id > n_segments THEN [m |-> m, s |-> s]
    ELSE IF \E c \in DOMAIN m : m[c] = segment_id
    THEN LET r == Sample(s, <<BIOME_FOREST, BIOME_DESERT>>, 1)
         IN AssignBiomes(Array([c \in DOMAIN m |-> IF m[c] = segment_id THEN r.v[1] ELSE m[c]]),
                         r.s, segment_id + 1, n_segments)
    ELSE AssignBiomes(m, s, segment_id + 1, n_segments)

\* BiomeMatrix without the convolution that keeps biomes off the beaches
BiomeMatrixNoBeach(w) ==
    LET smatrix == w.matrix["Sea"]
        rmatrix == w.matrix["River"]
        InRange(c) == /\ w.hm[c] > SEA_THRESHOLD + BIOME_H_DELTA
                      /\ w.hm[c] < MOUNTAIN_THRESHOLD - BIOME_H_DELTA
        m0 == Array([c \in DOMAIN w.hm |->
                 IF InRange(c) /\ rmatrix[c] = 0 /\ smatrix[c] = 0
                 THEN 1 ELSE 0])
        Assign(labelled) == AssignBiomes(labelled.m, w.pyrng, 1, labelled.n)
    IN Assign(LabelMatrixSegments(m0, MIN_BIOME_SIZE))

\* BiomeLayer.generate, before the classification
BiomeMatrix(w) ==
    LET smatrix == w.matrix["Sea"]
        rmatrix == w.matrix["River"]
        InRange(c) == /\ w.hm[c] > SEA_THRESHOLD + BIOME_H_DELTA
                      /\ w.hm[c] < MOUNTAIN_THRESHOLD - BIOME_H_DELTA
        SConvZero(c) == /\ smatrix[c] = 0
                        /\ \A p \in SeqToSet(AllNeighbors(smatrix, c)) : smatrix[p] = 0
        m0 == Array([c \in DOMAIN w.hm |->
                 IF InRange(c) /\ rmatrix[c] = 0 /\ smatrix[c] = 0 /\ SConvZero(c)
                 THEN 1 ELSE 0])
        Assign(labelled) == AssignBiomes(labelled.m, w.pyrng, 1, labelled.n)
    IN Assign(LabelMatrixSegments(m0, MIN_BIOME_SIZE))

\* BiomeLayer.generate as wrapped by TerrainLayer.classified (TileClassifierSolid)
BiomeGenerate(w) ==
    LET Store(g, cx) ==
            [ok |-> TRUE,
             w |-> [SetLayer(w, "Biome", cx.fm, cx.m) EXCEPT !.pyrng = g.s]]
        Classified(g) == Store(g, ClassifySolid(g.m, FALSE, TRUE))
    IN Classified(BiomeMatrix(w))

\* LandMatrix that keeps the river cells
LandMatrixWithRivers(w) ==
    LET smatrix == w.matrix["Sea"]
        labelled == LabelMatrixSegments(
                        Array([c \in DOMAIN smatrix |-> IF smatrix[c] = 0 THEN 1 ELSE 0]),
                        MIN_POPSUPPORT_SIZE).m
    IN Array([c \in DOMAIN smatrix |-> IF labelled[c] # 0 THEN 1 ELSE 0])

\* The cells a city may be drawn on: non-sea segments of at least
\* MIN_POPSUPPORT_SIZE cells, without their river cells
LandMatrix(w) ==
    LET smatrix == w.matrix["Sea"]
        rmatrix == w.matrix["River"]
        labelled == LabelMatrixSegments(
                        Array([c \in DOMAIN smatrix |-> IF smatrix[c] = 0 THEN 1 ELSE 0]),
                        MIN_POPSUPPORT_SIZE).m
    IN Array([c \in DOMAIN smatrix |->
          IF labelled[c] # 0 /\ rmatrix[c] = 0 THEN 1 ELSE 0])

\* The score of a land cell, in tenths
CityScore(w, c) ==
    LET smatrix == w.matrix["Sea"]
        rmatrix == w.matrix["River"]
        bmatrix == w.matrix["Biome"]
        nb == SeqToSet(AllNeighbors(smatrix, c))
    IN 10 + (IF \E p \in nb : rmatrix[p] # 0 THEN 30 ELSE 0)
          + (IF \E p \in nb : smatrix[p] # 0 THEN 30 ELSE 0)
          - (IF bmatrix[c] = BIOME_DESERT THEN 9
             ELSE IF bmatrix[c] = BIOME_FOREST THEN 5 ELSE 0)

RECURSIVE SumSeq(_)
SumSeq(q) == IF q = <<>> THEN 0 ELSE q[1] + SumSeq(Tail(q))

\* numpy.random.choice(..., p = score_vec): the index where the cumulative
\* score first exceeds the uniform draw r
RECURSIVE ChoiceIndex(_, _, _, _)
ChoiceIndex(score_vec, r, i, acc) ==
    IF acc + score_vec[i] > r \/ i = Len(score_vec) THEN i
    ELSE ChoiceIndex(score_vec, r, i + 1, acc + score_vec[i])

\* The n_cities draws and the marking of the drawn cells
RECURSIVE DrawCities(_, _, _, _, _)
DrawCities(m, s, coords, score_vec, n) ==
    IF n = 0 THEN [m |-> m, s |-> s]
    ELSE LET r == RandBelow(s, SumSeq(score_vec))
             i == ChoiceIndex(score_vec, r.v, 1, 0)
         IN DrawCities([m EXCEPT ![coords[i]] = 1], r.s, coords, score_vec, n - 1)

\* check_and_remove that also spares a city at the threshold in x or in y
CheckAndRemoveStrictBox(m, src, dst, d_threshold) ==
    IF src = dst THEN m
    ELSE IF m[dst] = 0 \/ m[src] = 0 THEN m
    ELSE IF Abs(src[1] - dst[1]) >= d_threshold \/ Abs(src[2] - dst[2]) >= d_threshold THEN m
    ELSE IF (src[1] - dst[1]) * (src[1] - dst[1]) + (src[2] - dst[2]) * (src[2] - dst[2])
              > d_threshold * d_threshold THEN m
    ELSE [m EXCEPT ![dst] = 0]

\* check_and_remove of _remove_close_cities
CheckAndRemove(m, src, dst, d_threshold) ==
    IF src = dst THEN m
    ELSE IF m[dst] = 0 \/ m[src] = 0 THEN m
    ELSE IF Abs(src[1] - dst[1]) > d_threshold \/ Abs(src[2] - dst[2]) > d_threshold THEN m
    ELSE IF (src[1] - dst[1]) * (src[1] - dst[1]) + (src[2] - dst[2]) * (src[2] - dst[2])
              > d_threshold * d_threshold THEN m
    ELSE [m EXCEPT ![dst] = 0]

RECURSIVE RemoveCloseDests(_, _, _, _, _)
RemoveCloseDests(m, src, coords, j, d_threshold) ==
    IF j > Len(coords) THEN m
    ELSE RemoveCloseDests(CheckAndRemove(m, src, coords[j], d_threshold),
                          src, coords, j + 1, d_threshold)

RECURSIVE ForeachCoord(_, _, _, _)
ForeachCoord(m, coords, i, d_threshold) ==
    IF i > Len(coords) THEN m
    ELSE ForeachCoord(RemoveCloseDests(m, coords[i], coords, 1, d_threshold),
                      coords, i + 1, d_threshold)

DThreshold(n) == Min2(n \div CITY_CLOSENESS_FACTOR, MAX_CITY_DISALLOW_RADIUS)

\* CityLayer._remove_close_cities
RemoveCloseCities(m, n) ==
    ForeachCoord(m, SortCells({c \in DOMAIN m : m[c] # 0}, n), 1, DThreshold(n))

\* A City record (juice/city.py)
City(x, y) == [x |-> x, y |-> y]

\* CityLayer._create_objects
CreateObjects(m, n) ==
    LET coords == SortCells({c \in DOMAIN m : m[c] # 0}, n)
    IN Array([i \in 1 .. Len(coords) |-> City(coords[i][1], coords[i][2])])

\* CityLayer.generate and its classification.  With no city to draw the
\* generator raises after _init_matrix has stored the empty matrix.
CityGenerate(w) ==
    LET Coords(landmatrix) ==
            SortCells({c \in DOMAIN landmatrix : landmatrix[c] # 0}, w.dim)
        n_cities(n_coords) == (n_coords * CITY_DENSITY_PER_MILLE) \div 1000
        score_vec(coords) == Array([i \in 1 .. Len(coords) |-> CityScore(w, coords[i])])
        Store(marked, m) ==
            [ok |-> TRUE,
             w |-> [SetLayer(w, "City", m, ClassifySimple(m))
                      EXCEPT !.nprng = marked.s, !.drawn = marked.m,
                             !.cities = CreateObjects(m, w.dim)]]
        Separate(marked) == Store(marked, RemoveCloseCities(marked.m, w.dim))
        Draw(coords) ==
            IF n_cities(Len(coords)) = 0
            THEN [ok |-> FALSE, w |-> SetMatrix(w, "City", ZeroGrid(w.dim))]
            ELSE Separate(DrawCities(ZeroGrid(w.dim), w.nprng, coords, score_vec(coords),
                                     n_cities(Len(coords))))
    IN Draw(Coords(LandMatrix(w)))

\* Addition of movement points (hundredths), inf + a = inf
AddMP(a, b) == IF a >= Inf \/ b >= Inf THEN Inf ELSE a + b

\* RoadLayer._init_weightmap
InitWeightmap(w) ==
    LET smatrix == w.matrix["Sea"]
        bmatrix == w.matrix["Biome"]
        rcxion_matrix == w.classification["River"]
        Sea(c) == IF smatrix[c] # 0 THEN Inf ELSE MP_BASE
        Biomes(c) == IF bmatrix[c] = BIOME_DESERT THEN AddMP(Sea(c), MP_PENALTY_DESERT)
                     ELSE IF bmatrix[c] = BIOME_FOREST THEN AddMP(Sea(c), MP_PENALTY_FOREST)
                     ELSE Sea(c)
    IN Array([c \in DOMAIN smatrix |->
          IF rcxion_matrix[c] \in {TT_STRAIGHT_WE, TT_STRAIGHT_NS} THEN MP_BRIDGE
          ELSE IF rcxion_matrix[c] # 0 THEN Inf
          ELSE Biomes(c)])

\* A neighbor_callback for which a step onto a road cell costs nothing
RECURSIVE RelaxNeighborsFreeRoads(_, _, _, _, _, _, _)
RelaxNeighborsFreeRoads(ds, m, wm, hmatrix, cur, nbrs, i) ==
    IF i > Len(nbrs) THEN ds
    ELSE LET p == nbrs[i]
             curr_d == ds.distm[cur]
             d == IF m[p] > 0 THEN curr_d
                  ELSE AddMP(curr_d,
                             AddMP(wm[p], Abs(hmatrix[cur] - hmatrix[p]) * MP_PENALTY_ELEV))
         IN RelaxNeighborsFreeRoads(
                IF d < ds.distm[p]
                THEN [distm |-> [ds.distm EXCEPT ![p] = d],
                      to_visit |-> ds.to_visit \cup {<<d, p[1], p[2]>>}]
                ELSE ds,
                m, wm, hmatrix, cur, nbrs, i + 1)

\* neighbor_callback of _generate_road, over the edge neighbours of cur in
\* order.  ds = [distm, to_visit]; the heap is the set of its entries.
RECURSIVE RelaxNeighbors(_, _, _, _, _, _, _)
RelaxNeighbors(ds, m, wm, hmatrix, cur, nbrs, i) ==
    IF i > Len(nbrs) THEN ds
    ELSE LET p == nbrs[i]
             curr_d == ds.distm[cur]
             d == IF m[p] > 0 THEN AddMP(curr_d, MP_ROAD)
                  ELSE AddMP(curr_d,
                             AddMP(wm[p], Abs(hmatrix[cur] - hmatrix[p]) * MP_PENALTY_ELEV))
         IN RelaxNeighbors(
                IF d < ds.distm[p]
                THEN [distm |-> [ds.distm EXCEPT ![p] = d],
                      to_visit |-> ds.to_visit \cup {<<d, p[1], p[2]>>}]
                ELSE ds,
                m, wm, hmatrix, cur, nbrs, i + 1)

\* heapq.heappop: the least entry in the order of tuples
HeapMin(h) ==
    CHOOSE a \in h : \A b \in h :
        \/ a[1] < b[1]
        \/ a[1] = b[1] /\ a[2] < b[2]
        \/ a[1] = b[1] /\ a[2] = b[2] /\ a[3] <= b[3]

\* find_min_d_neighbor over the edge neighbours of c: the position the
\* callback leaves in (cx, cy), c itself if no neighbour is closer
RECURSIVE MinDNeighbor(_, _, _, _, _)
MinDNeighbor(distm, nbrs, i, d, best) ==
    IF i > Len(nbrs) THEN best
    ELSE IF distm[nbrs[i]] < d
    THEN MinDNeighbor(distm, nbrs, i + 1, distm[nbrs[i]], nbrs[i])
    ELSE MinDNeighbor(distm, nbrs, i + 1, d, best)

\* A traceback that marks the end city cell and stops
TracebackRoadEndOnly(m, distm, c) ==
    [m |-> [m EXCEPT ![c] = 1], stuck |-> FALSE, chain |-> <<c>>]

\* RoadLayer._traceback_road from position c at distance distm[c]; stuck
\* tells that the loop can make no progress from c, chain is the history of
\* the cells it marks, in the order it marks them
RECURSIVE TracebackRoad(_, _, _)
TracebackRoad(m, distm, c) ==
    LET marked == [m EXCEPT ![c] = 1]
        next == MinDNeighbor(distm, EdgeNeighbors(distm, c), 1, distm[c], c)
        After(t) == [t EXCEPT !.chain = <<c>> \o t.chain]
    IN IF distm[c] <= 0 THEN [m |-> marked, stuck |-> FALSE, chain |-> <<c>>]
       ELSE IF next = c THEN [m |-> marked, stuck |-> TRUE, chain |-> <<c>>]
       ELSE After(TracebackRoad(marked, distm, next))

\* The while loop of _generate_road from the position cur
RECURSIVE RoadSearch(_, _, _, _, _, _)
RoadSearch(ds, m, wm, hmatrix, cur, end) ==
    LET Traced(t, distm) == [m |-> t.m, found |-> TRUE, stuck |-> t.stuck,
                             chain |-> t.chain, distm |-> distm]
        Pop(relaxed, top) ==
            IF <<top[2], top[3]>> = end
            THEN Traced(TracebackRoad(m, relaxed.distm, end), relaxed.distm)
            ELSE RoadSearch([distm |-> relaxed.distm,
                             to_visit |-> relaxed.to_visit \ {top}],
                            m, wm, hmatrix, <<top[2], top[3]>>, end)
        Visit(relaxed) ==
            IF relaxed.to_visit = {}
            THEN [m |-> m, found |-> FALSE, stuck |-> FALSE, chain |-> <<>>,
                  distm |-> relaxed.distm]
            ELSE Pop(relaxed, HeapMin(relaxed.to_visit))
    IN Visit(RelaxNeighbors(ds, m, wm, hmatrix, cur, EdgeNeighbors(wm, cur), 1))

\* RoadLayer._generate_road(start_city, end_city)
GenerateRoad(m, wm, hmatrix, start_city, end_city) ==
    LET start == <<start_city.x, start_city.y>>
        end == <<end_city.x, end_city.y>>
    IN RoadSearch([distm |-> [Array([c \in DOMAIN m |-> Inf]) EXCEPT ![start] = 0],
                   to_visit |-> {}],
                  m, wm, hmatrix, start, end)

\* The for loop of RoadLayer.generate
RECURSIVE GenerateRoads(_, _, _, _, _, _, _)
GenerateRoads(m, s, wm, hmatrix, city_list, n_roads, rlog) ==
    IF n_roads = 0 THEN [m |-> m, s |-> s, rlog |-> rlog]
    ELSE LET Rest(pair, r) ==
                 GenerateRoads(r.m, pair.s, wm, hmatrix, city_list, n_roads - 1,
                     Append(rlog, [start |-> pair.v[1], end |-> pair.v[2],
                                   found |-> r.found, stuck |-> r.stuck,
                                   chain |-> r.chain, before |-> m, m |-> r.m,
                                   distm |-> r.distm]))
             Plan(pair) == Rest(pair, GenerateRoad(m, wm, hmatrix, pair.v[1], pair.v[2]))
         IN Plan(Sample(s, city_list, 2))

\* RoadLayer.generate, before the classification
RoadMatrix(w) ==
    GenerateRoads(ZeroGrid(w.dim), w.pyrng, InitWeightmap(w), w.hm,
                  w.cities, Len(w.cities) \div 2, <<>>)

\* RoadLayer.generate as wrapped by TerrainLayer.classified (TileClassifierLine)
RoadGenerate(w) ==
    LET Store(g, cx) ==
            [ok |-> TRUE,
             w |-> [SetLayer(w, "Road", cx.fm, cx.m)
                      EXCEPT !.pyrng = g.s, !.weightmap = InitWeightmap(w),
                             !.roadlog = g.rlog]]
        Classified(g) == Store(g, ClassifyLine(g.m, FALSE, TRUE))
    IN Classified(RoadMatrix(w))

-----------------------------------------------------------------------------
(* The world and its generation (terrain.py, TerrainLayer) *)

\* The stacks a caller asks for, as the sequence of its add_layer calls
Plans ==
    { <<"Sea", "River", "Delta", "Biome", "City", "Road">>,
      <<"Sea", "River", "Biome", "City", "Road">>,
      <<"Sea", "River", "Biome", "City", "Road", "Delta">>,
      <<"Sea", "River", "Sea", "Biome">>,
      <<"River", "Sea">>,
      <<"Sea", "Biome">> }

\* self._require of each layer class
Require(kind) ==
    CASE kind = "Sea" -> {}
      [] kind = "River" -> {"Sea"}
      [] kind = "Delta" -> {"River"}
      [] kind = "Biome" -> {"Sea", "River"}
      [] kind = "City" -> {"Sea", "River", "Biome"}
      [] kind = "Road" -> {"City"}

\* The wrapped generate method of each layer class
Generate(kind, w) ==
    CASE kind = "Sea" -> SeaGenerate(w)
      [] kind = "River" -> RiverGenerate(w)
      [] kind = "Delta" -> DeltaGenerate(w)
      [] kind = "Biome" -> BiomeGenerate(w)
      [] kind = "City" -> CityGenerate(w)
      [] kind = "Road" -> RoadGenerate(w)

\* The layers whose matrix a generator reads
Uses(kind) ==
    CASE kind = "Sea" -> {}
      [] kind = "River" -> {"Sea"}
      [] kind = "Delta" -> {"Sea", "River"}
      [] kind = "Biome" -> {"Sea", "River"}
      [] kind = "City" -> {"Sea", "River", "Biome"}
      [] kind = "Road" -> {"Sea", "River", "Biome", "City"}

\* A requirement that only asks for the layer to be in the stack
RequirementPresent(stack, w, r) ==
    r \in SeqToSet(stack)

\* Terrain.get_layer_by_type(r) finds a layer and that layer has a matrix
RequirementMet(stack, w, r) ==
    r \in SeqToSet(stack) /\ w.matrix[r] # NoGrid

\* _check_requirements without the invalidation of the matrix
CheckRequirementsKeepsMatrix(kind, stack, w) ==
    IF \E r \in Require(kind) : ~RequirementMet(stack, w, r)
    THEN [err |-> "RequirementError", w |-> w]
    ELSE IF \E u \in Uses(kind) : u \notin SeqToSet(stack) \/ w.matrix[u] = NoGrid
    THEN [err |-> "TypeError", w |-> w]
    ELSE LET Guard(g) == IF g.ok THEN [err |-> "", w |-> g.w]
                         ELSE [err |-> "ValueError", w |-> g.w]
         IN Guard(Generate(kind, w))

\* TerrainLayer._check_requirements, the generate a caller sees.  A
\* generator that reads a layer which is missing or has no matrix raises
\* (LookupError, TypeError), one that has no city to draw raises ValueError.
CheckRequirements(kind, stack, w) ==
    IF \E r \in Require(kind) : ~RequirementMet(stack, w, r)
    THEN [err |-> "RequirementError", w |-> w]
    ELSE IF \E u \in Uses(kind) : u \notin SeqToSet(stack) \/ w.matrix[u] = NoGrid
    THEN [err |-> "TypeError", w |-> SetMatrix(w, kind, NoGrid)]
    ELSE LET Guard(g) == IF g.ok THEN [err |-> "", w |-> g.w]
                         ELSE [err |-> "ValueError", w |-> SetMatrix(g.w, kind, NoGrid)]
         IN Guard(Generate(kind, w))

World ==
    [dim |-> dim, hm |-> hm, matrix |-> matrix, classification |-> classification,
     pyrng |-> pyrng, nprng |-> nprng, cities |-> cities, drawn |-> drawn,
     weightmap |-> weightmap, riverlog |-> riverlog, roadlog |-> roadlog]

SetWorld(w) ==
    /\ hm' = w.hm
    /\ matrix' = w.matrix
    /\ classification' = w.classification
    /\ pyrng' = w.pyrng
    /\ nprng' = w.nprng
    /\ cities' = w.cities
    /\ drawn' = w.drawn
    /\ weightmap' = w.weightmap
    /\ riverlog' = w.riverlog
    /\ roadlog' = w.roadlog

\* The states random and numpy.random may be in before anything seeds them
Unseeded == {0, 1}

\* The state after Terrain(dim, randseed) for a seed of Seeds and a caller
\* with a plan of SomePlans: the Heightmap and Terrain constructors have
\* seeded random, nothing has seeded numpy.random
InitSeeds(Seeds, SomePlans) ==
    /\ seed \in Seeds
    /\ plan \in SomePlans
    /\ nadded = 0
    /\ dim = Dim
    /\ pyrng = RngSeed(seed)
    /\ nprng \in Unseeded
    /\ layers = <<>>
    /\ hm = NoGrid
    /\ matrix = [k \in Kinds |-> NoGrid]
    /\ classification = [k \in Kinds |-> NoGrid]
    /\ cities = <<>>
    /\ drawn = NoGrid
    /\ weightmap = NoGrid
    /\ riverlog = <<>>
    /\ roadlog = <<>>
    /\ pc = "setup"
    /\ gi = 0
    /\ log = <<>>
    /\ err = ""
    /\ calls = 0
    /\ run = 1
    /\ prev = <<>>
    /\ draws = <<>>

Init == InitSeeds(1 .. MaxSeed, Plans)

\* AddLayer with a constructor that seeds random but not numpy.random
AddLayerSeedsRandomOnly ==
    /\ pc = "setup"
    /\ nadded < Len(plan)
    /\ nadded' = nadded + 1
    /\ pyrng' = RngSeed(seed)
    /\ layers' = IF plan[nadded + 1] \in SeqToSet(layers) THEN layers
                 ELSE Append(layers, plan[nadded + 1])
    /\ log' = IF plan[nadded + 1] \in SeqToSet(layers)
              THEN Append(log, [ev |-> "TypeError", stage |-> plan[nadded + 1], classified |-> FALSE])
              ELSE log
    /\ UNCHANGED <<seed, plan, dim, nprng, hm, matrix, classification, cities, drawn,
                   weightmap, riverlog, roadlog, pc, gi, err, calls, run, prev, draws>>

\* An add_layer that appends the layer whether or not its kind is present
AddLayerKeepsDuplicates ==
    /\ pc = "setup"
    /\ nadded < Len(plan)
    /\ nadded' = nadded + 1
    /\ pyrng' = RngSeed(seed)
    /\ nprng' = RngSeed(seed)
    /\ layers' = Append(layers, plan[nadded + 1])
    /\ UNCHANGED <<seed, plan, dim, hm, matrix, classification, cities, drawn,
                   weightmap, riverlog, roadlog, pc, gi, log, err, calls, run, prev, draws>>

\* Layer(terrain, randseed) followed by Terrain.add_layer(layer): the
\* constructor seeds both generators; a second layer of a kind is refused
AddLayer ==
    /\ pc = "setup"
    /\ nadded < Len(plan)
    /\ nadded' = nadded + 1
    /\ pyrng' = RngSeed(seed)
    /\ nprng' = RngSeed(seed)
    /\ layers' = IF plan[nadded + 1] \in SeqToSet(layers) THEN layers
                 ELSE Append(layers, plan[nadded + 1])
    /\ log' = IF plan[nadded + 1] \in SeqToSet(layers)
              THEN Append(log, [ev |-> "TypeError", stage |-> plan[nadded + 1], classified |-> FALSE])
              ELSE log
    /\ UNCHANGED <<seed, plan, dim, hm, matrix, classification, cities, drawn,
                   weightmap, riverlog, roadlog, pc, gi, err, calls, run, prev, draws>>

\* Terrain.generate, its first statement: self.heightmap.generate()
GenHeightmap ==
    /\ pc = "setup"
    /\ nadded = Len(plan)
    /\ \E g \in {HeightmapGenerate(pyrng, dim)} :
          /\ hm' = g.m
          /\ pyrng' = g.s
          /\ pc' = IF g.ok THEN "cb" ELSE "failed"
          /\ err' = IF g.ok THEN "" ELSE "ValueError"
          /\ log' = IF g.ok
                    THEN Append(log, [ev |-> "gen", stage |-> "Heightmap", classified |-> FALSE])
                    ELSE log
    /\ gi' = 0
    /\ draws' = Append(draws, [stage |-> "Heightmap", pyrng |-> pyrng, nprng |-> nprng])
    /\ UNCHANGED <<seed, plan, nadded, dim, nprng, layers, matrix, classification,
                   cities, drawn, weightmap, riverlog, roadlog, calls, run, prev>>

\* Callback with a Terrain.generate that reports the layers but not the heightmap
CallbackLayersOnly ==
    /\ pc = "cb"
    /\ log' = IF gi = 0 THEN log
              ELSE Append(log, [ev |-> "cb", stage |-> layers[gi],
                                classified |-> classification[layers[gi]] # NoGrid])
    /\ gi' = IF gi < Len(layers) THEN gi + 1 ELSE gi
    /\ pc' = IF gi < Len(layers) THEN "layer" ELSE "done"
    /\ UNCHANGED <<seed, plan, nadded, dim, pyrng, nprng, layers, hm, matrix,
                   classification, cities, drawn, weightmap, riverlog, roadlog,
                   err, calls, run, prev, draws>>

\* Terrain.generate: post_generate_cb(heightmap) or post_generate_cb(layer)
Callback ==
    /\ pc = "cb"
    /\ log' = Append(log, [ev |-> "cb",
                           stage |-> IF gi = 0 THEN "Heightmap" ELSE layers[gi],
                           classified |-> gi > 0 /\ classification[layers[gi]] # NoGrid])
    /\ gi' = IF gi < Len(layers) THEN gi + 1 ELSE gi
    /\ pc' = IF gi < Len(layers) THEN "layer" ELSE "done"
    /\ UNCHANGED <<seed, plan, nadded, dim, pyrng, nprng, layers, hm, matrix,
                   classification, cities, drawn, weightmap, riverlog, roadlog,
                   err, calls, run, prev, draws>>

\* Terrain.generate: layer.generate() for the layer at position gi
GenLayer ==
    /\ pc = "layer"
    /\ \E r \in {CheckRequirements(layers[gi], layers, World)} :
          /\ SetWorld(r.w)
          /\ err' = r.err
          /\ pc' = IF r.err = "" THEN "cb" ELSE "failed"
          /\ log' = Append(log, [ev |-> IF r.err = "" THEN "gen" ELSE r.err,
                                 stage |-> layers[gi], classified |-> FALSE])
    /\ draws' = Append(draws, [stage |-> layers[gi], pyrng |-> pyrng, nprng |-> nprng])
    /\ UNCHANGED <<seed, plan, nadded, dim, layers, gi, calls, run, prev>>

\* A caller's own layer.generate() once Terrain.generate has returned or raised
CallGenerate(kind) ==
    /\ pc \in {"done", "failed"}
    /\ calls < MaxCalls
    /\ kind \in SeqToSet(layers)
    /\ \E r \in {CheckRequirements(kind, layers, World)} :
          /\ SetWorld(r.w)
          /\ err' = r.err
          /\ log' = Append(log, [ev |-> IF r.err = "" THEN "call" ELSE r.err,
                                 stage |-> kind, classified |-> FALSE])
    /\ calls' = calls + 1
    /\ draws' = Append(draws, [stage |-> kind, pyrng |-> pyrng, nprng |-> nprng])
    /\ UNCHANGED <<seed, plan, nadded, dim, layers, pc, gi, run, prev>>

\* What a run leaves for comparison with another run
Outcome ==
    [pc |-> pc, err |-> err, hm |-> hm, matrix |-> matrix,
     classification |-> classification, cities |-> cities, layers |-> layers]

\* A second generation run from the same seed, dimension and plan: a new
\* Terrain is constructed while the generators hold whatever the first run left
Restart ==
    /\ pc \in {"done", "failed"}
    /\ calls = 0
    /\ run = 1
    /\ run' = 2
    /\ prev' = Outcome
    /\ nadded' = 0
    /\ pyrng' = RngSeed(seed)
    /\ layers' = <<>>
    /\ hm' = NoGrid
    /\ matrix' = [k \in Kinds |-> NoGrid]
    /\ classification' = [k \in Kinds |-> NoGrid]
    /\ cities' = <<>>
    /\ drawn' = NoGrid
    /\ weightmap' = NoGrid
    /\ riverlog' = <<>>
    /\ roadlog' = <<>>
    /\ pc' = "setup"
    /\ gi' = 0
    /\ log' = <<>>
    /\ err' = ""
    /\ draws' = <<>>
    /\ UNCHANGED <<seed, plan, dim, nprng, calls>>

Next ==
    \/ AddLayer
    \/ GenHeightmap
    \/ Callback
    \/ GenLayer
    \/ \E kind \in Kinds : CallGenerate(kind)

Spec == Init /\ [][Next]_vars

\* Two generation runs, one after the other, from the same inputs
InitRuns == InitSeeds(1 .. MaxRunSeed, Plans)

NextRuns ==
    \/ AddLayer
    \/ GenHeightmap
    \/ Callback
    \/ GenLayer
    \/ Restart

SpecRuns == InitRuns /\ [][NextRuns]_vars

\* A second generation run from the same seed and dimension with another
\* stack of layers; prev keeps the generators each generate of the first run
\* started from
RestartWithPlan ==
    /\ pc \in {"done", "failed"}
    /\ calls = 0
    /\ run = 1
    /\ run' = 2
    /\ prev' = [plan |-> plan, draws |-> draws]
    /\ plan' \in Plans \ {plan}
    /\ nadded' = 0
    /\ pyrng' = RngSeed(seed)
    /\ layers' = <<>>
    /\ hm' = NoGrid
    /\ matrix' = [k \in Kinds |-> NoGrid]
    /\ classification' = [k \in Kinds |-> NoGrid]
    /\ cities' = <<>>
    /\ drawn' = NoGrid
    /\ weightmap' = NoGrid
    /\ riverlog' = <<>>
    /\ roadlog' = <<>>
    /\ pc' = "setup"
    /\ gi' = 0
    /\ log' = <<>>
    /\ err' = ""
    /\ draws' = <<>>
    /\ UNCHANGED <<seed, dim, nprng, calls>>

\* Two generation runs, one after the other, from the same seed with
\* different stacks
NextStacks ==
    \/ AddLayer
    \/ GenHeightmap
    \/ Callback
    \/ GenLayer
    \/ RestartWithPlan

SpecStacks == InitRuns /\ [][NextStacks]_vars

\* Terrain.generate: layer.generate() for the layer at position gi, in a
\* world whose river ids end at SMALL_MAX_RIVER_ID
GenLayerSmallIds ==
    /\ pc = "layer"
    /\ \E r \in {IF layers[gi] = "River" /\ RequirementMet(layers, World, "Sea")
                  THEN [err |-> "", w |-> RiverGenerateTo(SMALL_MAX_RIVER_ID, World).w]
                  ELSE CheckRequirements(layers[gi], layers, World)} :
          /\ SetWorld(r.w)
          /\ err' = r.err
          /\ pc' = IF r.err = "" THEN "cb" ELSE "failed"
          /\ log' = Append(log, [ev |-> IF r.err = "" THEN "gen" ELSE r.err,
                                 stage |-> layers[gi], classified |-> FALSE])
    /\ draws' = Append(draws, [stage |-> layers[gi], pyrng |-> pyrng, nprng |-> nprng])
    /\ UNCHANGED <<seed, plan, nadded, dim, layers, gi, calls, run, prev>>

\* Generations in a world with more river sources than river ids: the
\* largest id is scaled with the world, as the number of sources is
InitRiverCap == InitSeeds(1 .. MaxCapSeed, Plans)

NextRiverCap ==
    \/ AddLayer
    \/ GenHeightmap
    \/ Callback
    \/ GenLayerSmallIds

SpecRiverCap == InitRiverCap /\ [][NextRiverCap]_vars

\* layer.generate() of Terrain.generate in a terrain whose SEA_THRESHOLD is 0
GenLayerSeaAtZero ==
    /\ pc = "layer"
    /\ \E r \in {IF layers[gi] = "Sea"
                  THEN [err |-> "", w |-> SeaGenerateAt(0, World).w]
                  ELSE CheckRequirements(layers[gi], layers, World)} :
          /\ SetWorld(r.w)
          /\ err' = r.err
          /\ pc' = IF r.err = "" THEN "cb" ELSE "failed"
          /\ log' = Append(log, [ev |-> IF r.err = "" THEN "gen" ELSE r.err,
                                 stage |-> layers[gi], classified |-> FALSE])
    /\ draws' = Append(draws, [stage |-> layers[gi], pyrng |-> pyrng, nprng |-> nprng])
    /\ UNCHANGED <<seed, plan, nadded, dim, layers, gi, calls, run, prev>>

\* Generations of the stack that holds the Sea layer alone, SEA_THRESHOLD 0
InitSeaAtZero == InitSeeds(1 .. MaxZeroSeed, {<<"Sea">>})

NextSeaAtZero ==
    \/ AddLayer
    \/ GenHeightmap
    \/ Callback
    \/ GenLayerSeaAtZero

SpecSeaAtZero == InitSeaAtZero /\ [][NextSeaAtZero]_vars

\* layer.generate() of Terrain.generate for a layer other than River
GenLayerNotRiver ==
    /\ pc = "layer"
    /\ layers[gi] # "River"
    /\ GenLayer

\* RiverLayer.generate up to its for loop: the matrix is initialised and the
\* river sources are picked; prev keeps rvr_source_coords
RiverBegin ==
    /\ pc = "layer"
    /\ layers[gi] = "River"
    /\ RequirementMet(layers, World, "Sea")
    /\ \E sources \in {RiverSources(World)} :
          /\ prev' = [sources |-> sources.v]
          /\ nprng' = sources.s
    /\ matrix' = [matrix EXCEPT !["River"] = ZeroGrid(dim)]
    /\ riverlog' = <<>>
    /\ pc' = "walk"
    /\ draws' = Append(draws, [stage |-> layers[gi], pyrng |-> pyrng, nprng |-> nprng])
    /\ UNCHANGED <<seed, plan, nadded, dim, pyrng, layers, hm, classification, cities,
                   drawn, weightmap, roadlog, gi, log, err, calls, run>>

\* The next turn of the for loop of RiverLayer.generate and _generate_river
\* up to its while loop: the source is confirmed or the walk is not begun
RiverStart ==
    /\ pc = "walk"
    /\ IF riverlog = <<>> THEN TRUE ELSE riverlog[Len(riverlog)].result # "walking"
    /\ Len(riverlog) < Len(prev.sources)
    /\ Len(riverlog) < MAX_RIVER_ID
    /\ riverlog' = Append(riverlog,
           [id |-> Len(riverlog) + 1,
            src |-> prev.sources[Len(riverlog) + 1],
            last |-> prev.sources[Len(riverlog) + 1],
            result |-> IF ConfirmSquareOk(matrix["River"], prev.sources[Len(riverlog) + 1],
                                          Len(riverlog) + 1, 0, FALSE)
                       THEN "walking" ELSE "rejected",
            m |-> matrix["River"],
            steps |-> 0])
    /\ UNCHANGED <<seed, plan, nadded, dim, pyrng, nprng, layers, hm, matrix, classification,
                   cities, drawn, weightmap, roadlog, pc, gi, log, err, calls, run, prev,
                   draws>>

\* One turn of the while loop of _generate_river
WalkStep ==
    /\ pc = "walk"
    /\ riverlog # <<>>
    /\ riverlog[Len(riverlog)].result = "walking"
    /\ \E r \in {RiverStep([m |-> matrix["River"], s |-> pyrng,
                             c |-> riverlog[Len(riverlog)].last, result |-> "walking"],
                            hm, matrix["Sea"], riverlog[Len(riverlog)].id)} :
          /\ matrix' = [matrix EXCEPT !["River"] = r.m]
          /\ pyrng' = r.s
          /\ riverlog' = [riverlog EXCEPT ![Len(riverlog)] =
                             [id |-> @.id, src |-> @.src, last |-> r.c,
                              result |-> r.result, m |-> r.m, steps |-> @.steps + 1]]
    /\ UNCHANGED <<seed, plan, nadded, dim, nprng, layers, hm, classification, cities, drawn,
                   weightmap, roadlog, pc, gi, log, err, calls, run, prev, draws>>

\* The end of the for loop of RiverLayer.generate and the classification of
\* TerrainLayer.classified (TileClassifierLine, classify_extend = False)
RiverEnd ==
    /\ pc = "walk"
    /\ IF riverlog = <<>> THEN TRUE ELSE riverlog[Len(riverlog)].result # "walking"
    /\ ~(Len(riverlog) < Len(prev.sources) /\ Len(riverlog) < MAX_RIVER_ID)
    /\ \E cx \in {ClassifyLine(matrix["River"], FALSE, FALSE)} :
          /\ matrix' = [matrix EXCEPT !["River"] = cx.fm]
          /\ classification' = [classification EXCEPT !["River"] = cx.m]
    /\ pc' = "cb"
    /\ err' = ""
    /\ log' = Append(log, [ev |-> "gen", stage |-> "River", classified |-> FALSE])
    /\ UNCHANGED <<seed, plan, nadded, dim, pyrng, nprng, layers, hm, cities, drawn,
                   weightmap, riverlog, roadlog, gi, calls, run, prev, draws>>

\* Generations of the Sea and River layers, the river walks step by step
InitWalks == InitSeeds(1 .. MaxWalkSeed, {<<"Sea", "River">>})

NextWalks ==
    \/ AddLayer
    \/ GenHeightmap
    \/ Callback
    \/ GenLayerNotRiver
    \/ RiverBegin
    \/ RiverStart
    \/ WalkStep
    \/ RiverEnd

SpecWalks == InitWalks /\ [][NextWalks]_vars

\* The add_layer calls of every list of up to MaxAdds layers
RECURSIVE SeqsUpTo(_, _)
SeqsUpTo(S, n) ==
    IF n = 0 THEN {<<>>}
    ELSE LET shorter == SeqsUpTo(S, n - 1)
         IN shorter \cup {Append(q, k) : q \in shorter, k \in S}

InitAdds == InitSeeds({1}, SeqsUpTo(Kinds, MaxAdds))

NextAdds == AddLayer

SpecAdds == InitAdds /\ [][NextAdds]_vars

\* Generations of the stacks that end with the Road layer, over more seeds
RoadPlans == {p \in Plans : p[Len(p)] = "Road"}

InitRoads == InitSeeds(1 .. MaxRoadSeed, RoadPlans)

NextRoads ==
    \/ AddLayer
    \/ GenHeightmap
    \/ Callback
    \/ GenLayer

SpecRoads == InitRoads /\ [][NextRoads]_vars

-----------------------------------------------------------------------------
(* City separation in a world of the program's dimension.  The cells that  *)
(* numpy.random.choice has drawn are any 1 .. MaxDrawn cells of a corner   *)
(* of the world; the step is the rest of CityLayer.generate.               *)

Window == (0 .. 3) \X (0 .. 3)

RECURSIVE SubsetsUpTo(_, _)
SubsetsUpTo(W, k) ==
    IF k = 0 THEN {{}}
    ELSE LET smaller == SubsetsUpTo(W, k - 1)
         IN smaller \cup {S \cup {c} : S \in smaller, c \in W}

\* The City matrix after the loop that marks the drawn cells
InitCity ==
    /\ seed = 1
    /\ plan = <<"Sea", "River", "Biome", "City">>
    /\ nadded = Len(plan)
    /\ dim = TERRAIN_DIM
    /\ pyrng = RngSeed(seed)
    /\ nprng = RngSeed(seed)
    /\ layers = plan
    /\ hm = NoGrid
    /\ \E S \in SubsetsUpTo(Window, MaxDrawn) \ {{}} :
          /\ drawn = Array([c \in CellsOf(TERRAIN_DIM) |-> IF c \in S THEN 1 ELSE 0])
          /\ matrix = [k \in Kinds |-> IF k = "City" THEN drawn ELSE NoGrid]
    /\ classification = [k \in Kinds |-> NoGrid]
    /\ cities = <<>>
    /\ weightmap = NoGrid
    /\ riverlog = <<>>
    /\ roadlog = <<>>
    /\ pc = "cities"
    /\ gi = Len(plan)
    /\ log = <<>>
    /\ err = ""
    /\ calls = 0
    /\ run = 1
    /\ prev = <<>>
    /\ draws = <<>>

\* CityLayer.generate from self._remove_close_cities() on, with the
\* classification that follows it
SeparateCities ==
    /\ pc = "cities"
    /\ LET m == RemoveCloseCities(matrix["City"], dim)
       IN /\ matrix' = [matrix EXCEPT !["City"] = m]
          /\ classification' = [classification EXCEPT !["City"] = ClassifySimple(m)]
          /\ cities' = CreateObjects(m, dim)
    /\ pc' = "done"
    /\ UNCHANGED <<seed, plan, nadded, dim, pyrng, nprng, layers, hm, drawn,
                   weightmap, riverlog, roadlog, gi, log, err, calls, run, prev, draws>>

NextCity == SeparateCities

SpecCity == InitCity /\ [][NextCity]_vars

-----------------------------------------------------------------------------
(* The classifiers on their own: a grid as the matrix of a Sea, River,     *)
(* Biome or Road layer, classified as the decorator TerrainLayer.classified *)
(* does after generate, and then once more.  The grids are those whose     *)
(* nonzero cells are among the first MaxFree cells in row-major order.     *)

\* The classifier that TerrainLayer.classified builds for a layer of a kind,
\* from the layer's classifier and classify_* attributes, run on the matrix fm
ClassifyKind(kind, fm) ==
    IF kind = "Sea" THEN ClassifySolid(fm, TRUE, TRUE)
    ELSE IF kind = "River" THEN ClassifyLine(fm, FALSE, FALSE)
    ELSE IF kind = "Biome" THEN ClassifySolid(fm, FALSE, TRUE)
    ELSE ClassifyLine(fm, FALSE, TRUE)

ClassifiedKinds == {"Sea", "River", "Biome", "Road"}

FreeCells == {c \in CellsOf(Dim) : RowMajor(c, Dim) < MaxFree}

InitClassify ==
    /\ seed = 1
    /\ \E k \in ClassifiedKinds :
          /\ plan = <<k>>
          /\ layers = <<k>>
          /\ \E S \in SUBSET FreeCells :
                matrix = [j \in Kinds |->
                             IF j = k
                             THEN Array([c \in CellsOf(Dim) |-> IF c \in S THEN 1 ELSE 0])
                             ELSE NoGrid]
    /\ nadded = 1
    /\ dim = Dim
    /\ pyrng = RngSeed(seed)
    /\ nprng = RngSeed(seed)
    /\ hm = NoGrid
    /\ drawn = NoGrid
    /\ classification = [k \in Kinds |-> NoGrid]
    /\ cities = <<>>
    /\ weightmap = NoGrid
    /\ riverlog = <<>>
    /\ roadlog = <<>>
    /\ pc = "classify"
    /\ gi = 1
    /\ log = <<>>
    /\ err = ""
    /\ calls = 0
    /\ run = 1
    /\ prev = <<>>
    /\ draws = <<>>

\* cfier(tlayer, **cfier_args).classify() of TerrainLayer.classified: the
\* classifier writes the layer's matrix and returns the classification; prev
\* keeps the matrix and the classification the classifier started from
ClassifyLayer ==
    /\ pc = "classify"
    /\ \E r \in {ClassifyKind(layers[1], matrix[layers[1]])} :
          /\ matrix' = [matrix EXCEPT ![layers[1]] = r.fm]
          /\ classification' = [classification EXCEPT ![layers[1]] = r.m]
    /\ prev' = [matrix |-> matrix, classification |-> classification]
    /\ pc' = "classified"
    /\ UNCHANGED <<seed, plan, nadded, dim, pyrng, nprng, layers, hm, cities, drawn,
                   weightmap, riverlog, roadlog, gi, log, err, calls, run, draws>>

\* A Biome layer whose matrix is a grid of candidate cells, before
\* label_segments
InitSegments ==
    /\ seed \in 1 .. MaxBiomeSeed
    /\ plan = <<"Biome">>
    /\ layers = <<"Biome">>
    /\ \E S \in SUBSET FreeCells :
          matrix = [j \in Kinds |->
                       IF j = "Biome"
                       THEN Array([c \in CellsOf(Dim) |-> IF c \in S THEN 1 ELSE 0])
                       ELSE NoGrid]
    /\ nadded = 1
    /\ dim = Dim
    /\ pyrng = RngSeed(seed)
    /\ nprng = RngSeed(seed)
    /\ hm = NoGrid
    /\ drawn = NoGrid
    /\ classification = [k \in Kinds |-> NoGrid]
    /\ cities = <<>>
    /\ weightmap = NoGrid
    /\ riverlog = <<>>
    /\ roadlog = <<>>
    /\ pc = "segments"
    /\ gi = 1
    /\ log = <<>>
    /\ err = ""
    /\ calls = 0
    /\ run = 1
    /\ prev = <<>>
    /\ draws = <<>>

\* self.label_segments(min_size): prev keeps the matrix before, the minimum
\* size, the returned number of labels and the labelled matrix
LabelSegments ==
    /\ pc = "segments"
    /\ \E min_size \in {0, SMALL_MIN_SIZE, MIN_BIOME_SIZE} :
          \E r \in {LabelMatrixSegments(matrix["Biome"], min_size)} :
              /\ matrix' = [matrix EXCEPT !["Biome"] = r.m]
              /\ prev' = [matrix |-> matrix["Biome"], min_size |-> min_size,
                          n_labels |-> r.n, labelled |-> r.m]
    /\ pc' = "labelled"
    /\ UNCHANGED <<seed, plan, nadded, dim, pyrng, nprng, layers, hm, classification,
                   cities, drawn, weightmap, riverlog, roadlog, gi, log, err, calls, run,
                   draws>>

\* The loop of BiomeLayer.generate over the segments labelled with
\* MIN_BIOME_SIZE
TypeSegments ==
    /\ pc = "labelled"
    /\ prev.min_size = MIN_BIOME_SIZE
    /\ \E r \in {AssignBiomes(matrix["Biome"], pyrng, 1, prev.n_labels)} :
          /\ matrix' = [matrix EXCEPT !["Biome"] = r.m]
          /\ pyrng' = r.s
    /\ pc' = "typed"
    /\ draws' = Append(draws, [stage |-> "Biome", pyrng |-> pyrng, nprng |-> nprng])
    /\ UNCHANGED <<seed, plan, nadded, dim, nprng, layers, hm, classification,
                   cities, drawn, weightmap, riverlog, roadlog, gi, log, err, calls, run,
                   prev>>

NextSegments ==
    \/ LabelSegments
    \/ TypeSegments

SpecSegments == InitSegments /\ [][NextSegments]_vars

\* The arguments TerrainLayer.classified hands to the classifier of a kind
SolidKind(kind) == kind \in {"Sea", "Biome"}

RevKind(kind) == kind = "Sea"

ExtendKind(kind) == kind # "River"

\* cfier(tlayer, **cfier_args): the constructor sets _cls_matrix with
\* _init_matrix; prev keeps the layer's matrix of that moment
BuildClassifier ==
    /\ pc = "classify"
    /\ classification' = [classification EXCEPT
                             ![layers[1]] = ClsInitMatrix(matrix[layers[1]], RevKind(layers[1]))]
    /\ prev' = [matrix |-> matrix, classification |-> classification]
    /\ pc' = "passes"
    /\ UNCHANGED <<seed, plan, nadded, dim, pyrng, nprng, layers, hm, matrix, cities, drawn,
                   weightmap, riverlog, roadlog, gi, log, err, calls, run, draws>>

\* One turn of the while loop of TileClassifier.classify: the tilespec
\* lists are applied, the pass is logged (debug) and the loop ends when no
\* cell was removed
ClassifyPass ==
    /\ pc = "passes"
    /\ \E r \in {ApplyLists([m |-> classification[layers[1]], fm |-> matrix[layers[1]]],
                             IF SolidKind(layers[1]) THEN SolidTilespecLists
                             ELSE LineTilespecLists,
                             1, 0, SolidKind(layers[1]), RevKind(layers[1]),
                             ExtendKind(layers[1]))} :
          /\ matrix' = [matrix EXCEPT ![layers[1]] = r.fm]
          /\ classification' = [classification EXCEPT ![layers[1]] = r.m]
          /\ pc' = IF r.n <= 0 THEN "classified" ELSE "passes"
    /\ log' = Append(log, [ev |-> "pass", stage |-> layers[1], classified |-> FALSE])
    /\ UNCHANGED <<seed, plan, nadded, dim, pyrng, nprng, layers, hm, cities, drawn,
                   weightmap, riverlog, roadlog, gi, err, calls, run, prev, draws>>

NextPasses ==
    \/ BuildClassifier
    \/ ClassifyPass

\* The classifier of a layer of each kind, pass by pass
SpecPasses == InitClassify /\ [][NextPasses]_vars

\* The same classifier built and run once more on the layer
ClassifyAgain ==
    /\ pc = "classified"
    /\ \E r \in {ClassifyKind(layers[1], matrix[layers[1]])} :
          /\ matrix' = [matrix EXCEPT ![layers[1]] = r.fm]
          /\ classification' = [classification EXCEPT ![layers[1]] = r.m]
    /\ prev' = [matrix |-> matrix, classification |-> classification]
    /\ pc' = "reclassified"
    /\ UNCHANGED <<seed, plan, nadded, dim, pyrng, nprng, layers, hm, cities, drawn,
                   weightmap, riverlog, roadlog, gi, log, err, calls, run, draws>>

NextClassify == ClassifyLayer \/ ClassifyAgain

SpecClassify == InitClassify /\ [][NextClassify]_vars

-----------------------------------------------------------------------------
(* The claims *)

\* C1: determinism.  A second run that builds a new world from the same
\* seed, dimension and ordered layer list and calls generate once ends as
\* the first did: same outcome of generate, same height grid, same matrix
\* and classification of every layer, same city list.
C1_Determinism ==
    (run = 2 /\ pc \in {"done", "failed"}) => Outcome = prev

\* A second run of the full stack has ended with rivers, cities and a road
C1_Witness ==
    /\ run = 2
    /\ pc = "done"
    /\ Len(layers) = 6
    /\ Len(cities) >= 2
    /\ \E c \in DOMAIN matrix["River"] : matrix["River"][c] # 0
    /\ \E c \in DOMAIN matrix["Road"] : matrix["Road"][c] # 0
    /\ Outcome = prev

\* The generator runs and callbacks of Terrain.generate, in order
GenLog == SelectSeq(log, LAMBDA e : e.ev \in {"gen", "cb"})

\* What C2 expects of a complete generation of a stack
RECURSIVE ExpectedLog(_)
ExpectedLog(stack) ==
    IF stack = <<>>
    THEN << [ev |-> "gen", stage |-> "Heightmap", classified |-> FALSE],
            [ev |-> "cb", stage |-> "Heightmap", classified |-> FALSE] >>
    ELSE ExpectedLog(SubSeq(stack, 1, Len(stack) - 1)) \o
         << [ev |-> "gen", stage |-> stack[Len(stack)], classified |-> FALSE],
            [ev |-> "cb", stage |-> stack[Len(stack)], classified |-> TRUE] >>

\* C2: Terrain.generate builds the heightmap first, then runs each layer's
\* generator once in insertion order; the callback is invoked once for the
\* heightmap right after it is built and once for each layer right after the
\* layer is generated and classified, before the next generator starts.  At
\* every moment the generator runs and callbacks so far are a prefix of that
\* sequence, and a generation that returns has produced all of it.
C2_GenerationOrder ==
    LET expected == ExpectedLog(layers)
    IN /\ Len(GenLog) <= Len(expected)
       /\ GenLog = SubSeq(expected, 1, Len(GenLog))
       /\ pc = "done" => GenLog = expected

\* A generation of the full stack has returned
C2_Witness ==
    /\ pc = "done"
    /\ calls = 0
    /\ Len(layers) = 6
    /\ Len(GenLog) = 14

\* A step that is a call of the generate of the layer of a kind, by
\* Terrain.generate or by the caller
GenerateCalled(kind) ==
    /\ Len(log') = Len(log) + 1
    /\ log'[Len(log')].stage = kind
    /\ log'[Len(log')].ev \notin {"cb"}
    /\ pc = "layer" \/ calls' = calls + 1

\* C3: a call of a layer's generate while a declared prerequisite kind is
\* absent from the stack, or is in the stack without a matrix, raises
\* RequirementError and the layer's generator has not run: every matrix and
\* classification, both random generators, the city list and the weight map
\* are as they were before the call.
C3_Prerequisites ==
    [][\A kind \in Kinds :
         (/\ GenerateCalled(kind)
          /\ \E r \in Require(kind) : r \notin SeqToSet(layers) \/ matrix[r] = NoGrid)
         => /\ err' = "RequirementError"
            /\ UNCHANGED <<matrix, classification, pyrng, nprng, cities, drawn,
                           weightmap, riverlog, roadlog, hm>>]_vars

\* Terrain.generate has raised RequirementError for a River layer whose
\* prerequisite, Sea, is in the stack but was not generated yet
C3_Witness ==
    /\ pc = "failed"
    /\ err = "RequirementError"
    /\ log[Len(log)] = [ev |-> "RequirementError", stage |-> "River", classified |-> FALSE]
    /\ "Sea" \in SeqToSet(layers)
    /\ matrix["Sea"] = NoGrid

\* A layer that exposes a matrix was generated and classified in full
FullyBuilt(kind) ==
    matrix[kind] # NoGrid =>
        /\ DOMAIN matrix[kind] = CellsOf(dim)
        /\ classification[kind] # NoGrid
        /\ DOMAIN classification[kind] = CellsOf(dim)

\* C4: when a layer's generator has failed, the error is reported to the
\* caller of generate (Terrain.generate stops with it), the failing layer
\* holds no matrix, and every layer that holds a matrix is fully built.
C4_FailureClearsMatrix ==
    (log # <<>> /\ log[Len(log)].ev \in {"ValueError", "TypeError"} /\ hm # NoGrid) =>
        /\ err = log[Len(log)].ev
        /\ calls = 0 => pc = "failed"
        /\ matrix[log[Len(log)].stage] = NoGrid
        /\ \A kind \in Kinds : FullyBuilt(kind)

\* The City generator has failed after Sea, River and Biome were generated
C4_Witness ==
    /\ pc = "failed"
    /\ err = "ValueError"
    /\ log[Len(log)].stage = "City"
    /\ matrix["City"] = NoGrid
    /\ matrix["Biome"] # NoGrid

\* The number of cells of a matrix that carry a value
CellCount(m, v) == Cardinality({c \in DOMAIN m : m[c] = v})

\* C5 as claimed: once the Sea layer is generated and classified, every
\* positive value of the Sea matrix is carried by at least MIN_SEA_SIZE cells.
C5_EveryValue ==
    matrix["Sea"] # NoGrid =>
        \A c \in DOMAIN matrix["Sea"] :
            matrix["Sea"][c] > 0 => CellCount(matrix["Sea"], matrix["Sea"][c]) >= MIN_SEA_SIZE

\* C5 as amended: once the Sea layer is generated and classified, every
\* positive value of the Sea matrix other than 0xFE, the value the reversed
\* classification writes on the land cells it removes, is carried by at
\* least MIN_SEA_SIZE cells.
C5_SeaMinSize ==
    matrix["Sea"] # NoGrid =>
        \A c \in DOMAIN matrix["Sea"] :
            (matrix["Sea"][c] > 0 /\ matrix["Sea"][c] # REMOVED_REV)
                => CellCount(matrix["Sea"], matrix["Sea"][c]) >= MIN_SEA_SIZE

\* A Sea matrix with a labelled sea where the heightmap also had a sea
\* segment below MIN_SEA_SIZE, which the generator has merged into land
C5_Witness ==
    /\ matrix["Sea"] # NoGrid
    /\ \E c \in DOMAIN matrix["Sea"] : matrix["Sea"][c] \in 1 .. REMOVED_REV - 1
    /\ \E c \in DOMAIN matrix["Sea"] : hm[c] <= SEA_THRESHOLD /\ matrix["Sea"][c] = 0

\* The cells of the River matrix that hold a river id
RiverCells(id) == {c \in DOMAIN matrix["River"] : matrix["River"][c] = id}

\* What C6 says of the river walk recorded in rec
RiverEndsWell(rec) ==
    LET cells == RiverCells(rec.id)
    IN cells # {} =>
        /\ rec.src \in cells
        /\ Flood(matrix["River"], cells, {rec.src}) = cells
        /\ \/ matrix["Sea"][rec.last] > 0
           \/ \E p \in SeqToSet(EdgeNeighbors(matrix["River"], rec.last)) :
                 matrix["River"][p] \notin {0, rec.id}

\* C6: after River generation every cell of the River matrix holds the id
\* of one of the walks, and for every river id that still has cells, the
\* cells of the id are 4-connected to each other and include the source of
\* the walk, and the last cell of the walk is a sea cell or has an edge
\* neighbour that holds another river id in the final River matrix.
C6_RiversEnd ==
    (matrix["River"] # NoGrid /\ matrix["Delta"] = NoGrid) =>
        /\ \A c \in DOMAIN matrix["River"] : matrix["River"][c] \in 0 .. Len(riverlog)
        /\ \A i \in 1 .. Len(riverlog) : riverlog[i].id = i /\ RiverEndsWell(riverlog[i])

\* River generation has left a river that ended in the sea, a river that
\* ended next to another river, and a walk that failed and was erased
C6_Witness ==
    /\ matrix["River"] # NoGrid
    /\ matrix["Delta"] = NoGrid
    /\ \E i \in 1 .. Len(riverlog) :
          riverlog[i].result = "sea" /\ Cardinality(RiverCells(i)) >= 2
    /\ \E i \in 1 .. Len(riverlog) :
          riverlog[i].result = "converged" /\ RiverCells(i) # {}
    /\ \E i \in 1 .. Len(riverlog) :
          riverlog[i].result = "failed" /\ RiverCells(i) = {}

\* C7: in the world a generation leaves, for any stack with Sea, River and
\* Biome, no cell with a nonzero biome id is a sea cell, a river cell, or a
\* cell with a sea cell in its 3 x 3 neighbourhood.
C7_BiomeExclusion ==
    (matrix["Biome"] # NoGrid /\ calls = 0) =>
        \A c \in DOMAIN matrix["Biome"] :
            matrix["Biome"][c] # 0 =>
                /\ matrix["Sea"][c] = 0
                /\ matrix["River"][c] = 0
                /\ \A p \in SeqToSet(AllNeighbors(matrix["Sea"], c)) : matrix["Sea"][p] = 0

\* A generation has returned a world with a sea, a river and a biome
C7_Witness ==
    /\ pc = "done"
    /\ calls = 0
    /\ matrix["Biome"] # NoGrid
    /\ \E c \in DOMAIN matrix["Biome"] : matrix["Biome"][c] # 0
    /\ \E c \in DOMAIN matrix["Sea"] : matrix["Sea"][c] # 0
    /\ \E c \in DOMAIN matrix["River"] : matrix["River"][c] # 0

\* The square of the distance of two cities
Dist2(a, b) == (a.x - b.x) * (a.x - b.x) + (a.y - b.y) * (a.y - b.y)

LandCells == {c \in DOMAIN matrix["Sea"] : matrix["Sea"][c] = 0}

CityCells == {c \in DOMAIN matrix["City"] : matrix["City"][c] # 0}

\* C9: every city cell is a non-sea cell of a 4-connected component of
\* non-sea cells with at least MIN_POPSUPPORT_SIZE cells and is not a river
\* cell, and the city list holds one record per city cell, in row-major order.
C9_CityPlacement ==
    (matrix["City"] # NoGrid /\ calls = 0) =>
        /\ \A c \in CityCells :
              /\ c \in LandCells
              /\ Cardinality(Flood(matrix["Sea"], LandCells, {c})) >= MIN_POPSUPPORT_SIZE
              /\ matrix["River"][c] = 0
        /\ Len(cities) = Cardinality(CityCells)
        /\ \A i \in 1 .. Len(cities) : <<cities[i].x, cities[i].y>> \in CityCells
        /\ \A i \in 1 .. Len(cities) - 1 :
              RowMajor(<<cities[i].x, cities[i].y>>, dim)
                  < RowMajor(<<cities[i + 1].x, cities[i + 1].y>>, dim)

\* Cities were placed in a world that has river cells on land and a non-sea
\* component too small to support a city
C9_Witness ==
    /\ matrix["City"] # NoGrid
    /\ calls = 0
    /\ Len(cities) >= 2
    /\ \E c \in LandCells : matrix["River"][c] # 0
    /\ \E c \in LandCells :
          Cardinality(Flood(matrix["Sea"], LandCells, {c})) < MIN_POPSUPPORT_SIZE

\* C10: after any number of roads have been planned, every road cell has a
\* finite weight, no road cell is a sea cell, and a road cell that is also a
\* river cell has a straight river classification.
C10_RoadAdmissible ==
    (matrix["Road"] # NoGrid /\ calls = 0) =>
        \A i \in 1 .. Len(roadlog) : \A c \in DOMAIN roadlog[i].m :
            roadlog[i].m[c] # 0 =>
                /\ weightmap[c] < Inf
                /\ matrix["Sea"][c] = 0
                /\ matrix["River"][c] # 0 =>
                      classification["River"][c] \in {TT_STRAIGHT_NS, TT_STRAIGHT_WE}

\* The cell of a city
CellOf(city) == <<city.x, city.y>>

\* The cost of the step from the cell c onto its edge neighbour n while the
\* road matrix is rm: MP_ROAD onto a road cell, W[n] plus the elevation
\* penalty otherwise
EdgeCost(rm, c, n) ==
    IF rm[n] > 0 THEN MP_ROAD
    ELSE AddMP(weightmap[n], Abs(hm[c] - hm[n]) * MP_PENALTY_ELEV)

\* The cells that a path of finite cost joins to a cell of S
RECURSIVE FiniteReach(_, _)
FiniteReach(rm, S) ==
    LET more == {n \in DOMAIN rm \ S :
                    \E c \in S : /\ n \in SeqToSet(EdgeNeighbors(rm, c))
                                 /\ EdgeCost(rm, c, n) < Inf}
    IN IF more = {} THEN S ELSE FiniteReach(rm, S \cup more)

\* q is a 4-connected chain of cells
IsChain(q) ==
    \A k \in 1 .. Len(q) - 1 :
        Abs(q[k][1] - q[k + 1][1]) + Abs(q[k][2] - q[k + 1][2]) = 1

\* C11: for each city pair chosen for a road, if a path of finite cost joins
\* the start city to the end city, the road matrix after the pair holds a
\* 4-connected chain of road cells from the end city cell to the start city
\* cell; if none does, the pair is dropped without an error and the road
\* matrix is left as it was.
C11_RoadsConnect ==
    (matrix["Road"] # NoGrid /\ calls = 0) =>
        \A i \in 1 .. Len(roadlog) :
            LET rec == roadlog[i]
            IN IF CellOf(rec.end) \in FiniteReach(rec.before, {CellOf(rec.start)})
               THEN /\ rec.found
                    /\ ~rec.stuck
                    /\ IsChain(rec.chain)
                    /\ rec.chain[1] = CellOf(rec.end)
                    /\ rec.chain[Len(rec.chain)] = CellOf(rec.start)
                    /\ \A k \in 1 .. Len(rec.chain) : rec.m[rec.chain[k]] # 0
               ELSE /\ ~rec.found
                    /\ rec.m = rec.before
                    /\ err = ""

\* A road of at least four cells was planned between two cities
C11_Witness ==
    /\ matrix["Road"] # NoGrid
    /\ calls = 0
    /\ \E i \in 1 .. Len(roadlog) :
          /\ roadlog[i].found
          /\ Len(roadlog[i].chain) >= 4

\* A pair of cities that no path of finite cost joins was dropped
C11_WitnessDropped ==
    /\ matrix["Road"] # NoGrid
    /\ calls = 0
    /\ \E i \in 1 .. Len(roadlog) : ~roadlog[i].found

\* The least element of a nonempty set of numbers
Least(S) == CHOOSE a \in S : \A b \in S : a <= b

\* n rounds of relaxation of the distances d over every step of the grid
RECURSIVE Relaxed(_, _, _)
Relaxed(rm, d, n) ==
    IF n = 0 THEN d
    ELSE Relaxed(rm,
                 Array([c \in DOMAIN rm |->
                     Least({d[c]} \cup {AddMP(d[p], EdgeCost(rm, p, c)) :
                                           p \in SeqToSet(EdgeNeighbors(rm, c))})]),
                 n - 1)

\* The least sum of step costs over all 4-connected paths from start to end
LeastCost(rm, start, end) ==
    Relaxed(rm, Array([c \in DOMAIN rm |-> IF c = start THEN 0 ELSE Inf]),
            Cardinality(DOMAIN rm))[end]

\* The sum of the step costs along the chain q, which lists the cells from
\* the end back to the start, walked from the start to the end
RECURSIVE ChainCost(_, _, _)
ChainCost(rm, q, k) ==
    IF k <= 1 THEN 0
    ELSE AddMP(EdgeCost(rm, q[k], q[k - 1]), ChainCost(rm, q, k - 1))

\* C12: the chain marked for a pair is a path of least cost: the sum of the
\* step costs along it from the start city to the end city equals the least
\* such sum over all 4-connected paths between the two.
C12_RoadIsCheapest ==
    (matrix["Road"] # NoGrid /\ calls = 0) =>
        \A i \in 1 .. Len(roadlog) :
            roadlog[i].found =>
                ChainCost(roadlog[i].before, roadlog[i].chain, Len(roadlog[i].chain))
                    = LeastCost(roadlog[i].before, CellOf(roadlog[i].start),
                                CellOf(roadlog[i].end))

\* The archetype ids of TileClassifierSolid and of TileClassifierLine
SolidIds ==
    {TT_SOLID} \cup (TT_CONCAVE_NE .. TT_CONCAVE_NE + 3)
               \cup (TT_CONVEX_NE .. TT_CONVEX_NE + 3)
               \cup (TT_STRAIGHT_N .. TT_STRAIGHT_N + 3)
LineIds ==
    {TT_STRAIGHT_NS, TT_STRAIGHT_WE, TT_FOURWAY}
        \cup (TT_SOURCE_N .. TT_SOURCE_N + 3)
        \cup (TT_CORNER_NE .. TT_CORNER_NE + 3)
        \cup (TT_TBONE_N .. TT_TBONE_N + 3)

IdsOfKind(k) == IF k \in {"Sea", "Biome"} THEN SolidIds ELSE LineIds

\* C13: after the Solid or Line classifier has reached its fixed point,
\* every cell of the classification holds EMPTY or one archetype id of the
\* classifier's closed set; no cell holds NA.
C13_ArchetypesClosed ==
    pc \in {"classified", "reclassified"} =>
        \A c \in DOMAIN classification[layers[1]] :
            /\ classification[layers[1]][c] \in {TT_EMPTY} \cup IdsOfKind(layers[1])
            /\ classification[layers[1]][c] # TT_NA

\* A classifier has removed a cell of the layer and has left an archetype
C13_Witness ==
    /\ pc = "classified"
    /\ prev.matrix[layers[1]] # matrix[layers[1]]
    /\ \E c \in DOMAIN classification[layers[1]] :
          classification[layers[1]][c] \in IdsOfKind(layers[1]) \ {TT_SOLID}

\* The layer of kind k is a fixed point of its classifier: the classifier run
\* on the layer's matrix leaves the matrix as it is and returns the layer's
\* classification
ClassifierFixed(k) ==
    /\ ClassifyKind(k, matrix[k]).fm = matrix[k]
    /\ ClassifyKind(k, matrix[k]).m = classification[k]

\* C14: classifier idempotence.  For every layer of a generated world,
\* running the layer's classifier again on the layer's grid leaves the grid
\* unchanged and yields an equal classification.
C14_ClassifierIdempotent ==
    (pc = "done" /\ calls = 0) =>
        \A i \in 1 .. Len(layers) :
            layers[i] \in ClassifiedKinds => ClassifierFixed(layers[i])

\* C14, amended: the same, except for the River layer of a world whose Delta
\* layer has been generated, which has taken river cells out of the River
\* layer after the River classifier ran.
C14_IdempotentBeforeDelta ==
    (pc = "done" /\ calls = 0) =>
        \A i \in 1 .. Len(layers) :
            (/\ layers[i] \in ClassifiedKinds
             /\ ~(layers[i] = "River" /\ "Delta" \in SeqToSet(layers)))
                => ClassifierFixed(layers[i])

\* A world without a Delta layer has been generated in which the Sea, River
\* and Road layers hold archetypes
C14_Witness ==
    /\ pc = "done"
    /\ calls = 0
    /\ "Delta" \notin SeqToSet(layers)
    /\ "Road" \in SeqToSet(layers)
    /\ \E c \in DOMAIN matrix["Sea"] : classification["Sea"][c] \in SolidIds \ {TT_SOLID}
    /\ \E c \in DOMAIN matrix["River"] : classification["River"][c] # TT_EMPTY
    /\ \E c \in DOMAIN matrix["Road"] : classification["Road"][c] # TT_EMPTY

\* Run again, each classifier leaves the layer it has classified as it is
C14_ClassifyAgainIsNoOp ==
    pc = "reclassified" =>
        /\ matrix = prev.matrix
        /\ classification = prev.classification

\* The archetype of each family, named by the initial archetype of its
\* template, under each direction name
ArchetypeNamed ==
    (TT_CONCAVE_NE :> ("NE" :> TT_CONCAVE_NE @@ "SE" :> TT_CONCAVE_SE @@
                       "SW" :> TT_CONCAVE_SW @@ "NW" :> TT_CONCAVE_NW)) @@
    (TT_CONVEX_NE :> ("NE" :> TT_CONVEX_NE @@ "SE" :> TT_CONVEX_SE @@
                      "SW" :> TT_CONVEX_SW @@ "NW" :> TT_CONVEX_NW)) @@
    (TT_STRAIGHT_N :> ("N" :> TT_STRAIGHT_N @@ "E" :> TT_STRAIGHT_E @@
                       "S" :> TT_STRAIGHT_S @@ "W" :> TT_STRAIGHT_W)) @@
    (TT_STRAIGHT_NS :> ("NS" :> TT_STRAIGHT_NS @@ "WE" :> TT_STRAIGHT_WE)) @@
    (TT_SOURCE_N :> ("N" :> TT_SOURCE_N @@ "E" :> TT_SOURCE_E @@
                     "S" :> TT_SOURCE_S @@ "W" :> TT_SOURCE_W)) @@
    (TT_CORNER_NE :> ("NE" :> TT_CORNER_NE @@ "SE" :> TT_CORNER_SE @@
                      "SW" :> TT_CORNER_SW @@ "NW" :> TT_CORNER_NW)) @@
    (TT_TBONE_N :> ("N" :> TT_TBONE_N @@ "E" :> TT_TBONE_E @@
                    "S" :> TT_TBONE_S @@ "W" :> TT_TBONE_W)) @@
    (TT_FOURWAY :> ("" :> TT_FOURWAY))

\* The direction name of the initial archetype of a family
BaseDir ==
    (TT_CONCAVE_NE :> "NE") @@ (TT_CONVEX_NE :> "NE") @@ (TT_STRAIGHT_N :> "N") @@
    (TT_STRAIGHT_NS :> "NS") @@ (TT_SOURCE_N :> "N") @@ (TT_CORNER_NE :> "NE") @@
    (TT_TBONE_N :> "N") @@ (TT_FOURWAY :> "")

\* A direction name turned by 90 degrees clockwise
DirClockwise ==
    ("N" :> "E") @@ ("E" :> "S") @@ ("S" :> "W") @@ ("W" :> "N") @@
    ("NE" :> "SE") @@ ("SE" :> "SW") @@ ("SW" :> "NW") @@ ("NW" :> "NE") @@
    ("NS" :> "WE") @@ ("WE" :> "NS") @@ ("" :> "")

RECURSIVE DirTurned(_, _)
DirTurned(d, k) == IF k = 0 THEN d ELSE DirTurned(DirClockwise[d], k - 1)

\* The place <<row, column>> of a 3 x 3 neighbourhood that the place p comes
\* to when the neighbourhood is turned by 90 degrees clockwise: north (the
\* first row) goes east (the last column), east goes south, and so on
PlaceClockwise(p) == <<p[2], 4 - p[1]>>

\* A template turned k times by 90 degrees clockwise
RECURSIVE TemplateTurned(_, _)
TemplateTurned(a, k) ==
    IF k = 0 THEN a
    ELSE TemplateTurned(
             Array([r \in 1 .. 3 |-> [j \in 1 .. 3 |->
                 LET from == CHOOSE p \in (1 .. 3) \X (1 .. 3) : PlaceClockwise(p) = <<r, j>>
                 IN a[from[1]][from[2]]]]),
             k - 1)

\* The templates of the classifier of a layer kind, in the order of its list
TemplatesOfKind(k) ==
    IF k \in {"Sea", "Biome"} THEN SolidTilespecLists[2] ELSE LineTilespecLists[1]

\* The neighbourhood of the cell c in the classification of the layer kind
\* k, as booleans: the foreground the last pass of the classifier saw
ForegroundAround(k, c) ==
    LET nhood == Nhood(classification[k], c, k # "River")
    IN Array([r \in 1 .. 3 |-> [j \in 1 .. 3 |-> nhood[r][j] > TT_EMPTY]])

\* The neighbourhood of c matches the template ts turned t times and no
\* fewer, t below the rotation count of ts
FirstMatchAt(k, c, ts, t) ==
    /\ t < ts.rotations
    /\ IsTernaryMatrixEqual(TemplateTurned(ts.array, t), ForegroundAround(k, c))
    /\ \A j \in 0 .. t - 1 :
          ~IsTernaryMatrixEqual(TemplateTurned(ts.array, j), ForegroundAround(k, c))

\* The neighbourhood of c matches some rotation of a template that precedes
\* the i-th in the list of the classifier
EarlierMatch(k, c, i) ==
    \E g \in 1 .. i - 1 : \E t \in 0 .. 3 : FirstMatchAt(k, c, TemplatesOfKind(k)[g], t)

\* The cell c has the archetype of the template ts at rotation t, and that
\* archetype bears the base direction of the family turned t times clockwise
RotationId(k, c, ts, t) ==
    /\ classification[k][c] = ts.initial_tt + t
    /\ ts.initial_tt + t = ArchetypeNamed[ts.initial_tt][DirTurned(BaseDir[ts.initial_tt], t)]

\* C15: rotation closure.  A foreground cell whose neighbourhood matches the
\* template of a family turned k times by 90 degrees clockwise, k below the
\* rotation count of the family, and no earlier rotation, has the archetype
\* id initial_id + k, and that id is the archetype whose direction name is
\* the base direction turned k times clockwise.
C15_RotationClosure ==
    pc = "classified" =>
        \A c \in DOMAIN classification[layers[1]] :
            \A i \in 1 .. Len(TemplatesOfKind(layers[1])) : \A t \in 0 .. 3 :
                (/\ classification[layers[1]][c] # TT_EMPTY
                 /\ FirstMatchAt(layers[1], c, TemplatesOfKind(layers[1])[i], t))
                    => RotationId(layers[1], c, TemplatesOfKind(layers[1])[i], t)

\* C15, amended: the same for a cell whose neighbourhood matches no rotation
\* of a template that precedes the family's in the list of the classifier.
C15_RotationClosureInOrder ==
    pc = "classified" =>
        \A c \in DOMAIN classification[layers[1]] :
            \A i \in 1 .. Len(TemplatesOfKind(layers[1])) : \A t \in 0 .. 3 :
                (/\ classification[layers[1]][c] # TT_EMPTY
                 /\ FirstMatchAt(layers[1], c, TemplatesOfKind(layers[1])[i], t)
                 /\ ~EarlierMatch(layers[1], c, i))
                    => RotationId(layers[1], c, TemplatesOfKind(layers[1])[i], t)

\* A line layer has been classified that holds a corner turned twice and a
\* source turned once
C15_Witness ==
    /\ pc = "classified"
    /\ \E c \in DOMAIN classification[layers[1]] :
          /\ classification[layers[1]][c] = TT_CORNER_SW
          /\ FirstMatchAt(layers[1], c, TSL_CORNER, 2)
    /\ \E c \in DOMAIN classification[layers[1]] :
          /\ classification[layers[1]][c] = TT_SOURCE_E
          /\ FirstMatchAt(layers[1], c, TSL_SOURCE, 1)

\* C16: heightmap stretch.  After Heightmap.generate without noise and blur
\* every cell of the grid is in 0 .. 255, at least one cell equals 0 and at
\* least one cell equals 255.
C16_StretchedFullRange ==
    (\E i \in 1 .. Len(log) : log[i].ev = "gen" /\ log[i].stage = "Heightmap") =>
        /\ \A c \in DOMAIN hm : hm[c] \in 0 .. 255
        /\ \E c \in DOMAIN hm : hm[c] = 0
        /\ \E c \in DOMAIN hm : hm[c] = 255

\* The generators a component draws from: random ("py"), numpy.random ("np")
DrawsFrom(stage) ==
    IF stage \in {"Heightmap", "Biome", "Road"} THEN {"py"}
    ELSE IF stage = "River" THEN {"py", "np"}
    ELSE IF stage = "City" THEN {"np"}
    ELSE {}

\* The generate of a component started in both runs from the same state of
\* every generator it draws from
SameDraws(a, b) ==
    /\ "py" \in DrawsFrom(a.stage) => a.pyrng = b.pyrng
    /\ "np" \in DrawsFrom(a.stage) => a.nprng = b.nprng

RiverJustGenerated ==
    /\ gi > 0
    /\ layers[gi] = "River"
    /\ draws # <<>>
    /\ draws[Len(draws)].stage = "River"
    /\ pc \in {"cb", "failed"}
    /\ err # "RequirementError"

\* The river sources that generation selected, in their order: those of the
\* world with numpy.random as it was when the generation started
SelectedSources ==
    RiverSources([World EXCEPT !.nprng = draws[Len(draws)].nprng]).v

\* Sources 1 .. SMALL_MAX_RIVER_ID were processed in order and no other, the
\* matrix is the one the last of them left, classified, and no cell holds a
\* larger id
CappedRivers ==
    /\ Len(riverlog) = SMALL_MAX_RIVER_ID
    /\ \A i \in 1 .. Len(riverlog) :
          riverlog[i].id = i /\ riverlog[i].src = SelectedSources[i]
    /\ matrix["River"] = ClassifyLine(riverlog[Len(riverlog)].m, FALSE, FALSE).fm
    /\ \A c \in DOMAIN matrix["River"] : matrix["River"][c] <= SMALL_MAX_RIVER_ID

\* C18: river capacity.  When more river sources are selected than there
\* are river ids, the sources up to the largest id are processed in order,
\* generation stops with the cells of their rivers preserved, the generate
\* call reports a CapacityError, and no river cell holds a larger id.
C18_RiverCapacityError ==
    (RiverJustGenerated /\ Len(SelectedSources) > SMALL_MAX_RIVER_ID) =>
        /\ CappedRivers
        /\ err = "CapacityError"

\* C18, amended: the same, but the generate call returns without an error
\* and the layer is classified.
C18_RiverCapacitySilent ==
    (RiverJustGenerated /\ Len(SelectedSources) > SMALL_MAX_RIVER_ID) =>
        /\ CappedRivers
        /\ err = ""
        /\ pc = "cb"
        /\ classification["River"] # NoGrid

\* More sources than ids were selected and a river of the processed ones has
\* reached the sea
C18_Witness ==
    /\ RiverJustGenerated
    /\ Len(SelectedSources) > SMALL_MAX_RIVER_ID
    /\ \E i \in 1 .. Len(riverlog) : riverlog[i].result = "sea"

\* The kinds of a list of layers in the order of their first occurrences
RECURSIVE FirstOccurrences(_)
FirstOccurrences(q) ==
    IF q = <<>> THEN <<>>
    ELSE LET front == FirstOccurrences(SubSeq(q, 1, Len(q) - 1))
         IN IF q[Len(q)] \in SeqToSet(front) THEN front ELSE Append(front, q[Len(q)])

\* C19: adding a layer whose kind is in the stack is rejected with an error
\* and leaves the stack as it is; after any sequence of adds the stack holds
\* at most one layer of each kind, in the order of the successful adds.
C19_OneLayerPerKind ==
    pc = "setup" =>
        /\ \A i, j \in 1 .. Len(layers) : i # j => layers[i] # layers[j]
        /\ layers = FirstOccurrences(SubSeq(plan, 1, nadded))
        /\ Len(log) = nadded - Len(layers)
        /\ \A i \in 1 .. Len(log) :
              log[i].ev = "TypeError" /\ log[i].stage \in SeqToSet(layers)

\* A layer of a kind in the stack was refused between two successful adds
C19_Witness ==
    /\ pc = "setup"
    /\ nadded = 3
    /\ Len(layers) = 2
    /\ plan[1] = plan[2]
    /\ Len(log) = 1

\* The Sea layer has been generated
SeaJustGenerated ==
    /\ Len(log) > 0
    /\ log[Len(log)].ev = "gen"
    /\ log[Len(log)].stage = "Sea"

\* C20: with SEA_THRESHOLD = 0 the generated Sea grid is zero in every cell.
C20_SeaAtZeroIsEmpty ==
    SeaJustGenerated => \A c \in DOMAIN matrix["Sea"] : matrix["Sea"][c] = 0

\* The cells of elevation 0 joined to the cells of R through edges
RECURSIVE ZeroGroup(_)
ZeroGroup(R) ==
    LET More(N) == IF N \subseteq R THEN R ELSE ZeroGroup(R \cup N)
    IN More({c \in DOMAIN hm :
                /\ hm[c] = 0
                /\ \E p \in R : (p[1] = c[1] /\ (p[2] - c[2]) \in {-1, 1})
                                   \/ (p[2] = c[2] /\ (p[1] - c[1]) \in {-1, 1})})

\* The cells of elevation 0 in edge-connected groups of MIN_SEA_SIZE or more
ZeroSeaCells ==
    {c \in DOMAIN hm : hm[c] = 0 /\ Cardinality(ZeroGroup({c})) >= MIN_SEA_SIZE}

\* C20 (amended): with SEA_THRESHOLD = 0 the generated Sea grid is zero in
\* every cell unless MIN_SEA_SIZE or more connected cells have elevation 0;
\* such cells are sea cells.
C20_SeaAtZeroEmptyUnlessPlateau ==
    SeaJustGenerated =>
        /\ \A c \in ZeroSeaCells : matrix["Sea"][c] \in 1 .. REMOVED_REV - 1
        /\ ZeroSeaCells = {} => \A c \in DOMAIN matrix["Sea"] : matrix["Sea"][c] = 0

\* A sea of cells of elevation 0 beside land, in a terrain whose
\* SEA_THRESHOLD is 0
C20_Witness ==
    /\ SeaJustGenerated
    /\ ZeroSeaCells # {}
    /\ \A c \in DOMAIN hm : matrix["Sea"][c] \in 1 .. REMOVED_REV - 1 => hm[c] = 0
    /\ \E c \in DOMAIN hm : hm[c] > 0 /\ matrix["Sea"][c] = 0

\* A world without a group of MIN_SEA_SIZE cells of elevation 0
C20_WitnessEmpty ==
    /\ SeaJustGenerated
    /\ ZeroSeaCells = {}
    /\ \E c \in DOMAIN hm : hm[c] = 0

\* The foreground cells of the classifier's matrix
ForegroundOf(cx) == {c \in DOMAIN cx : cx[c] # TT_EMPTY}

\* The foreground cells of the layer's matrix the classifier was built on
ForegroundAtStart ==
    {c \in DOMAIN prev.matrix[layers[1]] :
        IF layers[1] = "Sea" THEN prev.matrix[layers[1]][c] = 0
        ELSE prev.matrix[layers[1]][c] # 0}

\* C21: the classifier's passes end: a pass that is not the last demotes
\* at least one foreground cell, no pass makes a background cell foreground,
\* and there are at most as many passes as foreground cells plus one.
C21_PassesTerminate ==
    /\ [](pc \in {"passes", "classified"} =>
            /\ ForegroundOf(classification[layers[1]]) \subseteq ForegroundAtStart
            /\ Len(log) <= Cardinality(ForegroundAtStart) + 1)
    /\ [][pc = "passes" =>
            /\ ForegroundOf(classification'[layers[1]])
                   \subseteq ForegroundOf(classification[layers[1]])
            /\ pc' = "passes" =>
                   ForegroundOf(classification'[layers[1]])
                       # ForegroundOf(classification[layers[1]])]_vars

\* A classification that took two removing passes and a last one
C21_Witness ==
    /\ pc = "classified"
    /\ Len(log) >= 3
    /\ log[1].ev = "pass"
    /\ ForegroundOf(classification[layers[1]]) # {}

\* The walk of River generation that is under way or was the last to end
LastWalk == riverlog[Len(riverlog)]

\* The cells of the RiverGrid that hold an id
IdCells(m, id) == {c \in DOMAIN m : m[c] = id}

\* A turn of the while loop of _generate_river is taken
WalkStepTaken ==
    /\ pc = "walk"
    /\ riverlog # <<>>
    /\ LastWalk.result = "walking"
    /\ riverlog' # riverlog

\* C22: a river walk ends after at most N * N steps: each step marks a cell
\* that did not hold the walking river's id, so the cells that hold the id
\* grow by one with every step.
C22_WalkTerminates ==
    /\ []((pc = "walk" /\ riverlog # <<>>) =>
            /\ LastWalk.steps <= dim * dim
            /\ LastWalk.result = "walking" =>
                   Cardinality(IdCells(matrix["River"], LastWalk.id)) = LastWalk.steps)
    /\ [][WalkStepTaken =>
            /\ matrix["River"][LastWalk.last] # LastWalk.id
            /\ riverlog'[Len(riverlog)].steps = LastWalk.steps + 1
            /\ riverlog'[Len(riverlog)].result # "failed" =>
                   IdCells(matrix'["River"], LastWalk.id)
                       = IdCells(matrix["River"], LastWalk.id) \cup {LastWalk.last}]_vars

\* A walk of five steps or more that has ended, after another walk
C22_Witness ==
    /\ pc = "walk"
    /\ Len(riverlog) >= 2
    /\ LastWalk.result \in {"sea", "converged", "failed"}
    /\ LastWalk.steps >= 5

\* The RiverGrid at the start of the walk that is under way or was the last
WalkStartGrid ==
    IF Len(riverlog) = 1 THEN ZeroGrid(dim) ELSE riverlog[Len(riverlog) - 1].m

\* C28: a river walk writes its id only to cells that hold 0, changes no
\* cell that holds another river's id, and a walk that fails leaves the
\* RiverGrid as it was when the walk started.
C28_WalkWritesFreeCells ==
    /\ []((pc = "walk" /\ riverlog # <<>>) =>
            /\ \A c \in DOMAIN WalkStartGrid :
                  WalkStartGrid[c] # 0 => matrix["River"][c] = WalkStartGrid[c]
            /\ LastWalk.result \in {"failed", "rejected"} =>
                  matrix["River"] = WalkStartGrid)
    /\ [][WalkStepTaken =>
            \A c \in DOMAIN matrix["River"] :
                matrix'["River"][c] # matrix["River"][c] =>
                    \/ matrix["River"][c] = 0 /\ matrix'["River"][c] = LastWalk.id
                    \/ /\ matrix["River"][c] = LastWalk.id
                       /\ matrix'["River"][c] = 0
                       /\ riverlog'[Len(riverlog)].result = "failed"]_vars

\* A walk of three steps or more has failed beside the cells of another river
C28_Witness ==
    /\ pc = "walk"
    /\ Len(riverlog) >= 2
    /\ LastWalk.result = "failed"
    /\ LastWalk.steps >= 3
    /\ \E c \in DOMAIN matrix["River"] : matrix["River"][c] \in 1 .. LastWalk.id - 1

\* The cells next to c through an edge that hold the id of c
SameRiverNeighbours(m, c) ==
    {p \in DOMAIN m : /\ m[p] = m[c]
                      /\ \/ (p[1] = c[1] /\ (p[2] - c[2]) \in {-1, 1})
                         \/ (p[2] = c[2] /\ (p[1] - c[1]) \in {-1, 1})}

\* C29: at every point of River generation a cell that holds a river id has
\* at most two edge neighbours with that id, and the cells of the river
\* that is walking form a path without branches or loops.
C29_RiverIsSimplePath ==
    (pc = "walk" \/ (pc = "cb" /\ gi = 2)) =>
        /\ \A c \in DOMAIN matrix["River"] :
              matrix["River"][c] # 0 =>
                  Cardinality(SameRiverNeighbours(matrix["River"], c)) <= 2
        /\ (pc = "walk" /\ riverlog # <<>> /\ LastWalk.steps > 0
               /\ LastWalk.result \in {"walking", "sea", "converged"}) =>
              LET cells == IdCells(matrix["River"], LastWalk.id)
              IN /\ Cardinality({c \in cells :
                        Cardinality(SameRiverNeighbours(matrix["River"], c)) = 2})
                        = IF Cardinality(cells) >= 2 THEN Cardinality(cells) - 2 ELSE 0
                 /\ LastWalk.src \in cells
                 /\ Cardinality(cells) >= 2 =>
                       Cardinality(SameRiverNeighbours(matrix["River"], LastWalk.src)) = 1

\* A river of five cells or more that has bent
C29_Witness ==
    /\ pc = "walk"
    /\ riverlog # <<>>
    /\ LastWalk.result \in {"sea", "converged"}
    /\ Cardinality(IdCells(matrix["River"], LastWalk.id)) >= 5
    /\ \E c, p \in IdCells(matrix["River"], LastWalk.id) : c[1] # p[1] /\ c[2] # p[2]

\* The step-by-step generation ends as the generation in one piece does
WalksAgreeWithGenerate ==
    (pc = "cb" /\ gi = 2) =>
        LET whole == RiverGenerate([World EXCEPT !.pyrng = draws[3].pyrng,
                                                !.nprng = draws[3].nprng,
                                                !.matrix["River"] = NoGrid,
                                                !.classification["River"] = NoGrid,
                                                !.riverlog = <<>>]).w
        IN /\ whole.matrix = matrix
           /\ whole.classification = classification
           /\ whole.pyrng = pyrng
           /\ whole.nprng = nprng
           /\ \A i \in 1 .. Len(riverlog) : whole.riverlog[i].m = riverlog[i].m

\* The step is a generate of the layer of a kind, begun by Terrain.generate
\* or by a caller
Generating(kind) ==
    /\ pc \in {"layer", "done", "failed"}
    /\ Len(log') = Len(log) + 1
    /\ log'[Len(log')].ev # "cb"
    /\ log'[Len(log')].stage = kind

\* C23: a generation of a layer other than Delta leaves the height grid and
\* the grid and classification of every other generated layer as they are;
\* a Delta generation leaves the height grid as it is and changes the other
\* layers only at cells that were sea and river.
C23_GenerationFrame ==
    [][\A kind \in Kinds :
          Generating(kind) =>
              /\ hm' = hm
              /\ \A j \in Kinds \ {kind} :
                    matrix[j] # NoGrid =>
                        /\ matrix'[j] # NoGrid
                        /\ classification'[j] # NoGrid
                        /\ \A c \in DOMAIN matrix[j] :
                              (matrix'[j][c] # matrix[j][c]
                                 \/ classification'[j][c] # classification[j][c]) =>
                                  /\ kind = "Delta"
                                  /\ matrix["Sea"][c] > 0
                                  /\ matrix["River"][c] > 0]_vars

\* A complete generation in which the Delta layer has taken a river mouth
\* out of the River layer and the later layers have been generated
C23_Witness ==
    /\ pc = "done"
    /\ plan = <<"Sea", "River", "Delta", "Biome", "City", "Road">>
    /\ \E c \in DOMAIN matrix["Delta"] :
          /\ matrix["Delta"][c] = DELTA_SEA
          /\ matrix["River"][c] = 0
          /\ matrix["Sea"][c] > 0
    /\ \E c \in DOMAIN matrix["River"] : matrix["River"][c] > 0

\* The Delta layer has just been generated by Terrain.generate; the River
\* layer before it is in prev of no run, so the river mouths are read from
\* the Delta grid and the River grid from the walks of riverlog
DeltaJustGenerated ==
    /\ pc = "cb"
    /\ gi > 0
    /\ layers[gi] = "Delta"

\* The River grid as the River generation left it: the grid after the last
\* walk, classified
RiverBeforeDelta ==
    IF riverlog = <<>> THEN ClassifyLine(ZeroGrid(dim), FALSE, FALSE)
    ELSE ClassifyLine(riverlog[Len(riverlog)].m, FALSE, FALSE)

\* The DELTA_SEA cells among the edge neighbours of c, by direction
DeltaSeaDirs(c) ==
    {d \in {TT_DELTA_N, TT_DELTA_E, TT_DELTA_S, TT_DELTA_W} :
        \E p \in DOMAIN matrix["Delta"] :
            /\ matrix["Delta"][p] = DELTA_SEA
            /\ \/ d = TT_DELTA_N /\ p = <<c[1], c[2] - 1>>
               \/ d = TT_DELTA_E /\ p = <<c[1] + 1, c[2]>>
               \/ d = TT_DELTA_S /\ p = <<c[1], c[2] + 1>>
               \/ d = TT_DELTA_W /\ p = <<c[1] - 1, c[2]>>}

\* C24: after Delta generation a cell is DELTA_SEA exactly when it was sea
\* and river before, and then has river id 0 and river classification
\* EMPTY; a cell is DELTA_RIVER exactly when it is a remaining river cell
\* with a DELTA_SEA edge neighbour; every other delta cell is 0; a
\* DELTA_RIVER cell is classified with a direction in which a DELTA_SEA
\* neighbour lies and every other cell of the classification is EMPTY.
C24_DeltaCells ==
    DeltaJustGenerated =>
        \A c \in DOMAIN matrix["Delta"] :
            /\ matrix["Delta"][c] = DELTA_SEA <=>
                   (matrix["Sea"][c] > 0 /\ RiverBeforeDelta.fm[c] > 0)
            /\ matrix["Delta"][c] = DELTA_SEA =>
                   (matrix["River"][c] = 0 /\ classification["River"][c] = TT_EMPTY)
            /\ matrix["Delta"][c] = DELTA_RIVER <=>
                   (matrix["River"][c] > 0 /\ DeltaSeaDirs(c) # {})
            /\ matrix["Delta"][c] \in {0, DELTA_SEA, DELTA_RIVER}
            /\ IF matrix["Delta"][c] = DELTA_RIVER
               THEN classification["Delta"][c] \in DeltaSeaDirs(c)
               ELSE classification["Delta"][c] = TT_EMPTY

\* A delta of a river mouth in the sea and the river cell before it
C24_Witness ==
    /\ DeltaJustGenerated
    /\ \E c, p \in DOMAIN matrix["Delta"] :
          /\ matrix["Delta"][c] = DELTA_RIVER
          /\ matrix["Delta"][p] = DELTA_SEA
          /\ classification["Delta"][c] \in DeltaSeaDirs(c)
          /\ matrix["Sea"][p] \in 1 .. REMOVED_REV - 1

\* The nonzero cells of m joined to the cells of R through edges
RECURSIVE Component(_, _)
Component(m, R) ==
    LET More(N) == IF N \subseteq R THEN R ELSE Component(m, R \cup N)
    IN More({c \in DOMAIN m :
                /\ m[c] # 0
                /\ \E p \in R : (p[1] = c[1] /\ (p[2] - c[2]) \in {-1, 1})
                                   \/ (p[2] = c[2] /\ (p[1] - c[1]) \in {-1, 1})})

\* The 4-connected components of the nonzero cells of m
Components(m) == {Component(m, {c}) : c \in {p \in DOMAIN m : m[p] # 0}}

\* C25: label_matrix_segments gives two nonzero cells the same label exactly
\* when they are in one 4-connected component of the nonzero cells of the
\* input; the components are numbered 1 .. K and K is returned; a component
\* of fewer than min_size cells is set to 0 and the others keep their
\* numbers; the zero cells of the input stay zero.
C25_SegmentLabels ==
    pc = "labelled" =>
        LET comps == Components(prev.matrix)
            Number(comp) == Cardinality({other \in comps :
                                \E a \in other : \A b \in comp :
                                    RowMajor(a, dim) <= RowMajor(b, dim)})
        IN /\ prev.n_labels = Cardinality(comps)
           /\ \A c \in DOMAIN prev.matrix :
                 prev.matrix[c] = 0 => matrix["Biome"][c] = 0
           /\ \A comp \in comps : \A c \in comp :
                 matrix["Biome"][c] = IF Cardinality(comp) < prev.min_size THEN 0
                                      ELSE Number(comp)
           /\ \A comp \in comps : Number(comp) \in 1 .. prev.n_labels
           /\ \A comp, other \in comps : comp # other => Number(comp) # Number(other)

\* Three components, the second of them below the minimum size: the labels
\* 1 and 3 are left
C25_Witness ==
    /\ pc = "labelled"
    /\ prev.n_labels = 3
    /\ prev.min_size = MIN_BIOME_SIZE
    /\ {matrix["Biome"][c] : c \in DOMAIN matrix["Biome"]} = {0, 1, 3}

\* The typing C26 expects: for each label that is left, in order, a value is
\* drawn and written to the cells that carried the label
RECURSIVE TypedApart(_, _, _, _, _)
TypedApart(labelled, m, s, segment_id, n_segments) ==
    IF segment_id > n_segments THEN m
    ELSE IF \E c \in DOMAIN labelled : labelled[c] = segment_id
    THEN LET Rest(r) ==
                 TypedApart(labelled,
                            Array([c \in DOMAIN m |->
                                IF labelled[c] = segment_id THEN r.v[1] ELSE m[c]]),
                            r.s, segment_id + 1, n_segments)
         IN Rest(Sample(s, <<BIOME_FOREST, BIOME_DESERT>>, 1))
    ELSE TypedApart(labelled, m, s, segment_id + 1, n_segments)

\* C26: after the typing of the biomes every component that is left has all
\* its cells set to one id of BIOME_DESERT and BIOME_FOREST, the value drawn
\* for that component; the draw for one component does not change another.
C26_BiomesTypedApart ==
    pc = "typed" =>
        /\ \A c \in DOMAIN matrix["Biome"] :
              prev.labelled[c] # 0 => matrix["Biome"][c] \in {BIOME_DESERT, BIOME_FOREST}
        /\ matrix["Biome"] =
              TypedApart(prev.labelled, ZeroGrid(dim), draws[1].pyrng, 1, prev.n_labels)

\* The layer of a kind holds a grid and a classification
Classified(kind) == matrix[kind] # NoGrid /\ classification[kind] # NoGrid

\* C27: once a layer with the Solid or the Line classifier is classified, at
\* every later point of the generation (after Delta has edited the River
\* layer too) a cell is foreground in the layer's grid (nonzero, or zero for
\* the reversed Sea layer) exactly when its classification is not EMPTY.
C27_GridAgreesWithClassification ==
    \A kind \in ClassifiedKinds :
        Classified(kind) =>
            \A c \in DOMAIN matrix[kind] :
                (IF kind = "Sea" THEN matrix[kind][c] = 0 ELSE matrix[kind][c] # 0)
                    <=> classification[kind][c] # TT_EMPTY

\* A complete generation in which the classifier removed cells of the Sea
\* layer and Delta took a river mouth out of the River layer
C27_Witness ==
    /\ pc = "done"
    /\ \A kind \in ClassifiedKinds : Classified(kind)
    /\ matrix["Delta"] # NoGrid
    /\ \E c \in DOMAIN matrix["Sea"] : matrix["Sea"][c] = REMOVED_REV
    /\ \E c \in DOMAIN matrix["Delta"] :
          matrix["Delta"][c] = DELTA_SEA /\ classification["River"][c] = TT_EMPTY

\* C30: the planning of a road ends: the search stops when the end city is
\* taken from the queue or the queue is empty, the traceback from the end
\* city goes to a strictly lower recorded distance at every step (a cell at
\* a distance above 0 has an edge neighbour at a lower one) and stops at the
\* start city, the only cell at distance 0.
C30_RoadPlanningEnds ==
    (matrix["Road"] # NoGrid /\ calls = 0) =>
        \A i \in 1 .. Len(roadlog) :
            LET rec == roadlog[i]
            IN /\ ~rec.stuck
               /\ \A c \in DOMAIN rec.distm : rec.distm[c] = 0 <=> c = CellOf(rec.start)
               /\ \A c \in DOMAIN rec.distm :
                     (rec.distm[c] > 0 /\ rec.distm[c] < Inf) =>
                         \E n \in SeqToSet(EdgeNeighbors(rec.distm, c)) :
                             rec.distm[n] < rec.distm[c]
               /\ rec.found <=> rec.distm[CellOf(rec.end)] < Inf
               /\ rec.found =>
                     /\ rec.chain[1] = CellOf(rec.end)
                     /\ rec.chain[Len(rec.chain)] = CellOf(rec.start)
                     /\ \A k \in 1 .. Len(rec.chain) - 1 :
                           rec.distm[rec.chain[k + 1]] < rec.distm[rec.chain[k]]

\* Two roads were planned, the second over a cell of the first, and a pair
\* of cities was dropped
C30_Witness ==
    /\ matrix["Road"] # NoGrid
    /\ calls = 0
    /\ \E i, j \in 1 .. Len(roadlog) :
          /\ i < j
          /\ roadlog[i].found
          /\ roadlog[j].found
          /\ Len(roadlog[j].chain) >= 3
          /\ \E k \in 2 .. Len(roadlog[j].chain) - 1 :
                roadlog[j].before[roadlog[j].chain[k]] # 0

=============================================================================
